---- MODULE Spec2Model ----
(***************************************************************************)
(* Model of deif_to_mqtt.js: the bridge that polls a DEIF GC-1F/2           *)
(* controller over Modbus RTU, decodes the register blocks, tracks alarm   *)
(* transitions and engine run cycles, publishes per-metric MQTT topics and *)
(* forwards cooldown-gated MQTT commands as coil writes.                   *)
(*                                                                         *)
(* JavaScript runs each callback to its next await without interruption,   *)
(* so one action of the model is one such run-to-completion segment.       *)
(* A nullable value (null in the source) is a sequence: <<>> is null and   *)
(* <<v>> is the value v.  An alarm/status key "reg:bit" / "reg_bit" is the *)
(* pair <<reg, bit>>.  A register block is a sequence of 16-bit words; its *)
(* element i (from 1) is the source's element i-1.                         *)
(***************************************************************************)
EXTENDS Integers, Sequences, FiniteSets, TLC

VARIABLES
  env,                    \* configuration read from the environment at start
  now,                    \* the wall clock, Date.now()
  ticks,                  \* clock steps taken so far (bounds the clock)
  lastRun,                \* createCommandHandler: time of the last accepted command
  pendingWrites,          \* coil offsets of the handlers suspended in writeCoils
  lastCmd,                \* observation: what the step just taken did, when it
                          \* was a step of the command flow
  accepts,                \* observation: the times of the accepted commands
  lastAccept,             \* observation: null, or time and key of the last one
  driver,                 \* position of the main function around run()
  polls,                  \* the invocations of readAndPublish that are suspended
  prevActiveAlarmKeys,    \* Alarm transition state
  prevEngineRunning,      \* run-cycle state: null, or the last observed value
  lastRunStarted,         \* null, or the time of the last start event (ISO text)
  lastRunStopped,         \* null, or the time of the last stop event (ISO text)
  lastRunStartedMs,       \* null, or the time of the last start event (ms)
  lastRunDurationSeconds, \* null, or the last computed duration
  lastPoll,               \* observation: what the step just taken did, when it
                          \* was a step of the poll flow
  engine,                 \* the device: whether the engine is physically running
  cycles,                 \* observation: physical starts/stops and emitted events
  dec,                    \* the Bitfield Classifier applied to one block
  fn                      \* a helper function applied to one input

cmdVars   == <<lastRun, pendingWrites, accepts, lastAccept>>
rcVars    == <<prevEngineRunning, lastRunStarted, lastRunStopped,
               lastRunStartedMs, lastRunDurationSeconds>>
pollVars  == <<driver, polls, prevActiveAlarmKeys, rcVars>>
devVars   == <<engine, cycles>>
vars      == <<env, now, ticks, cmdVars, lastCmd, pollVars, lastPoll, devVars,
               dec, fn>>

(***************************************************************************)
(* CONFIG and REGISTER MAP                                                 *)
(***************************************************************************)
CMD_COOLDOWN_MS == 5000

MEAS_START == 500
MEAS_END == 576
MEAS_COUNT == (MEAS_END - MEAS_START) + 1

ALARM_START == 1000
ALARM_END == 1019
ALARM_COUNT == (ALARM_END - ALARM_START) + 1

CMD_FLAG_START == 1
CMD_FLAG_GB_ON == 2
CMD_FLAG_GB_OFF == 3
CMD_FLAG_STOP == 4
CMD_FLAG_ALARM_ACK == 10
CMD_FLAG_START_GB_ON == 15
CMD_FLAG_GB_OFF_STOP == 16
CMD_FLAG_MB_ON == 25
CMD_FLAG_MB_OFF == 26
CMD_FLAG_MANUAL_MODE == 28
CMD_FLAG_AUTO_MODE == 30
CMD_FLAG_TEST == 31

\* The topic of a command is TOPIC_PREFIX/cmd/<key>: the key stands for it.
COMMAND_DEFS_swapped == <<
  [key |-> "alarm_ack",   offset |-> CMD_FLAG_ALARM_ACK],
  [key |-> "start",       offset |-> CMD_FLAG_START],
  [key |-> "gb_on",       offset |-> CMD_FLAG_GB_OFF],
  [key |-> "gb_off",      offset |-> CMD_FLAG_GB_ON],
  [key |-> "stop",        offset |-> CMD_FLAG_STOP],
  [key |-> "start_gb_on", offset |-> CMD_FLAG_START_GB_ON],
  [key |-> "gb_off_stop", offset |-> CMD_FLAG_GB_OFF_STOP],
  [key |-> "mb_on",       offset |-> CMD_FLAG_MB_ON],
  [key |-> "mb_off",      offset |-> CMD_FLAG_MB_OFF],
  [key |-> "mode_manual", offset |-> CMD_FLAG_MANUAL_MODE],
  [key |-> "mode_auto",   offset |-> CMD_FLAG_AUTO_MODE],
  [key |-> "mode_test",   offset |-> CMD_FLAG_TEST] >>

COMMAND_DEFS == <<
  [key |-> "alarm_ack",   offset |-> CMD_FLAG_ALARM_ACK],
  [key |-> "start",       offset |-> CMD_FLAG_START],
  [key |-> "gb_on",       offset |-> CMD_FLAG_GB_ON],
  [key |-> "gb_off",      offset |-> CMD_FLAG_GB_OFF],
  [key |-> "stop",        offset |-> CMD_FLAG_STOP],
  [key |-> "start_gb_on", offset |-> CMD_FLAG_START_GB_ON],
  [key |-> "gb_off_stop", offset |-> CMD_FLAG_GB_OFF_STOP],
  [key |-> "mb_on",       offset |-> CMD_FLAG_MB_ON],
  [key |-> "mb_off",      offset |-> CMD_FLAG_MB_OFF],
  [key |-> "mode_manual", offset |-> CMD_FLAG_MANUAL_MODE],
  [key |-> "mode_auto",   offset |-> CMD_FLAG_AUTO_MODE],
  [key |-> "mode_test",   offset |-> CMD_FLAG_TEST] >>

CommandKeys == {COMMAND_DEFS[i].key : i \in DOMAIN COMMAND_DEFS}

\* COMMAND_DEFS.filter(c => c.enabled): the enabled flags are env.enabled.
ENABLED_COMMANDS(enabled) ==
  SelectSeq(COMMAND_DEFS, LAMBDA c : c.key \in enabled)

ALARM_MAP ==
     (<<1000, 0>> :> [code |-> "1000", text |-> "G -P> 1"])
  @@ (<<1000, 3>> :> [code |-> "1030", text |-> "G I> 1"])
  @@ (<<1000, 4>> :> [code |-> "1040", text |-> "G I> 2"])
  @@ (<<1000, 9>> :> [code |-> "1130", text |-> "G I>> 1"])
  @@ (<<1000, 10>> :> [code |-> "1140", text |-> "G I>> 2"])
  @@ (<<1000, 11>> :> [code |-> "1150", text |-> "G U> 1"])
  @@ (<<1000, 12>> :> [code |-> "1160", text |-> "G U> 2"])
  @@ (<<1000, 13>> :> [code |-> "1170", text |-> "G U< 1"])
  @@ (<<1000, 14>> :> [code |-> "1180", text |-> "G U< 2"])
  @@ (<<1001, 0>> :> [code |-> "1210", text |-> "G f> 1"])
  @@ (<<1001, 1>> :> [code |-> "1220", text |-> "G f> 2"])
  @@ (<<1001, 3>> :> [code |-> "1240", text |-> "G f< 1"])
  @@ (<<1001, 4>> :> [code |-> "1250", text |-> "G f< 2"])
  @@ (<<1001, 6>> :> [code |-> "no code", text |-> "BB U> 1"])
  @@ (<<1001, 7>> :> [code |-> "no code", text |-> "BB U> 2"])
  @@ (<<1001, 9>> :> [code |-> "no code", text |-> "BB U< 1"])
  @@ (<<1001, 10>> :> [code |-> "no code", text |-> "BB U< 2"])
  @@ (<<1001, 13>> :> [code |-> "no code", text |-> "BB f> 1"])
  @@ (<<1001, 14>> :> [code |-> "no code", text |-> "BB f> 2"])
  @@ (<<1002, 0>> :> [code |-> "no code", text |-> "BB f< 1"])
  @@ (<<1002, 1>> :> [code |-> "no code", text |-> "BB f< 2"])
  @@ (<<1002, 7>> :> [code |-> "1450", text |-> "G P> 1"])
  @@ (<<1002, 8>> :> [code |-> "1460", text |-> "G P> 2"])
  @@ (<<1002, 14>> :> [code |-> "no code", text |-> "-Q>"])
  @@ (<<1002, 15>> :> [code |-> "no code", text |-> "Q>"])
  @@ (<<1003, 7>> :> [code |-> "1620", text |-> "Mains unbalanced voltage"])
  @@ (<<1005, 3>> :> [code |-> "2150", text |-> "Phase seq error"])
  @@ (<<1005, 4>> :> [code |-> "2160", text |-> "GB open failure"])
  @@ (<<1005, 5>> :> [code |-> "2170", text |-> "GB close failure"])
  @@ (<<1005, 6>> :> [code |-> "no code", text |-> "GB pos failure"])
  @@ (<<1005, 7>> :> [code |-> "2200", text |-> "MB open failure"])
  @@ (<<1005, 8>> :> [code |-> "2210", text |-> "MB close failure"])
  @@ (<<1005, 9>> :> [code |-> "no code", text |-> "MB pos failure"])
  @@ (<<1010, 0>> :> [code |-> "3400", text |-> "Dig. multi-input 1"])
  @@ (<<1010, 1>> :> [code |-> "3410", text |-> "Dig. multi-input 2"])
  @@ (<<1010, 2>> :> [code |-> "3420", text |-> "Dig. multi-input 3"])
  @@ (<<1010, 3>> :> [code |-> "3404", text |-> "Wire failure, dig. multi-input 1"])
  @@ (<<1010, 4>> :> [code |-> "3404", text |-> "Wire failure, dig. multi-input 2"])
  @@ (<<1010, 5>> :> [code |-> "3424", text |-> "Wire failure, dig. multi-input 3"])
  @@ (<<1010, 12>> :> [code |-> "3490", text |-> "Dig. input 19-20/Emergency STOP"])
  @@ (<<1013, 0>> :> [code |-> "no code", text |-> "Multi-input 1.1"])
  @@ (<<1013, 1>> :> [code |-> "no code", text |-> "Multi-input 1.2"])
  @@ (<<1013, 2>> :> [code |-> "no code", text |-> "W. failure, multi-input 1"])
  @@ (<<1013, 3>> :> [code |-> "no code", text |-> "Multi-input 2.1"])
  @@ (<<1013, 4>> :> [code |-> "no code", text |-> "Multi-input 2.2"])
  @@ (<<1013, 5>> :> [code |-> "no code", text |-> "W. failure, multi-input 2"])
  @@ (<<1013, 6>> :> [code |-> "no code", text |-> "Multi-input 3.1"])
  @@ (<<1013, 7>> :> [code |-> "no code", text |-> "Multi-input 3.2"])
  @@ (<<1013, 8>> :> [code |-> "no code", text |-> "W. failure, multi-input 3"])
  @@ (<<1013, 9>> :> [code |-> "4510", text |-> "Overspeed 1"])
  @@ (<<1013, 10>> :> [code |-> "4520", text |-> "Overspeed 2"])
  @@ (<<1013, 11>> :> [code |-> "4620", text |-> "VDO fuel level 1.3"])
  @@ (<<1013, 12>> :> [code |-> "4610", text |-> "Charger gen"])
  @@ (<<1013, 13>> :> [code |-> "4600", text |-> "V-Belt"])
  @@ (<<1013, 14>> :> [code |-> "4560", text |-> "Generator Hz/V failure"])
  @@ (<<1013, 15>> :> [code |-> "no code", text |-> "Start failure"])
  @@ (<<1014, 0>> :> [code |-> "4580", text |-> "Stop failure"])
  @@ (<<1014, 1>> :> [code |-> "4960", text |-> "U< aux. supply term. 1"])
  @@ (<<1014, 2>> :> [code |-> "4970", text |-> "U> aux. supply term. 1"])
  @@ (<<1014, 5>> :> [code |-> "4610", text |-> "Charger Gen"])
  @@ (<<1015, 0>> :> [code |-> "6110", text |-> "Service timer 1"])
  @@ (<<1015, 1>> :> [code |-> "6120", text |-> "Service timer 2"])
  @@ (<<1015, 13>> :> [code |-> "no code", text |-> "Fuel fill check"])

STATUS_MAP ==
     (<<1018, 0>> :> [code |-> "no code", text |-> "Mains failure"])
  @@ (<<1018, 1>> :> [code |-> "no code", text |-> "MB pos ON"])
  @@ (<<1018, 4>> :> [code |-> "no code", text |-> "GB pos ON"])
  @@ (<<1018, 6>> :> [code |-> "no code", text |-> "Engine running"])
  @@ (<<1018, 7>> :> [code |-> "no code", text |-> "Running detection, timer expired"])
  @@ (<<1018, 8>> :> [code |-> "no code", text |-> "DG Hz/V OK, timer expired"])
  @@ (<<1019, 0>> :> [code |-> "no code", text |-> "OFF"])
  @@ (<<1019, 1>> :> [code |-> "no code", text |-> "Manual"])
  @@ (<<1019, 3>> :> [code |-> "no code", text |-> "Auto"])
  @@ (<<1019, 4>> :> [code |-> "no code", text |-> "Test"])
  @@ (<<1019, 5>> :> [code |-> "no code", text |-> "Island"])
  @@ (<<1019, 6>> :> [code |-> "no code", text |-> "AMF"])
  @@ (<<1019, 10>> :> [code |-> "no code", text |-> "Load take over"])
  @@ (<<1019, 15>> :> [code |-> "no code", text |-> "AMF active"])

MapRegisters(map) == {k[1] : k \in DOMAIN map}

ALARM_REGISTERS == MapRegisters(ALARM_MAP)
ALARM_REG_SET == ALARM_REGISTERS
STATUS_REGISTERS == MapRegisters(STATUS_MAP)

BIT_MASKS == [bit \in 0..15 |-> 2^bit]

(***************************************************************************)
(* HELPERS                                                                 *)
(***************************************************************************)
\* 0xffff + 1: the number of 16-bit words.
Word == 65536

\* regValue & BIT_MASKS[bit], as a truth value, for a 16-bit word.
BitAnd(regValue, bit) == ((regValue \div BIT_MASKS[bit]) % 2) = 1

\* The (index, bit) pairs in the order the two nested loops visit them.
ScanOrder(len) ==
  [k \in 1..(len * 16) |-> <<((k - 1) \div 16) + 1, (k - 1) % 16>>]

decodeAlarms_merged(alarmRegs) ==
  LET both == ALARM_MAP @@ STATUS_MAP
      hit(p) == /\ BitAnd(alarmRegs[p[1]], p[2])
                /\ <<ALARM_START + (p[1] - 1), p[2]>> \in DOMAIN both
      hits == SelectSeq(ScanOrder(Len(alarmRegs)), hit)
  IN [k \in 1..Len(hits) |->
        LET regAddr == ALARM_START + (hits[k][1] - 1)
            bit == hits[k][2]
        IN [register |-> regAddr, bit |-> bit,
            code |-> both[<<regAddr, bit>>].code,
            text |-> both[<<regAddr, bit>>].text]]

decodeAlarms_onePerRegister(alarmRegs) ==
  LET hit(p) == /\ (ALARM_START + (p[1] - 1)) \in ALARM_REG_SET
                /\ BitAnd(alarmRegs[p[1]], p[2])
                /\ <<ALARM_START + (p[1] - 1), p[2]>> \in DOMAIN ALARM_MAP
                /\ \A b \in 0..15 :
                     (b < p[2] /\ BitAnd(alarmRegs[p[1]], b))
                     => <<ALARM_START + (p[1] - 1), b>> \notin DOMAIN ALARM_MAP
      hits == SelectSeq(ScanOrder(Len(alarmRegs)), hit)
  IN [k \in 1..Len(hits) |->
        LET regAddr == ALARM_START + (hits[k][1] - 1)
            bit == hits[k][2]
        IN [register |-> regAddr, bit |-> bit,
            code |-> ALARM_MAP[<<regAddr, bit>>].code,
            text |-> ALARM_MAP[<<regAddr, bit>>].text]]

decodeAlarms(alarmRegs) ==
  LET hit(p) == /\ (ALARM_START + (p[1] - 1)) \in ALARM_REG_SET
                /\ BitAnd(alarmRegs[p[1]], p[2])
                /\ <<ALARM_START + (p[1] - 1), p[2]>> \in DOMAIN ALARM_MAP
      hits == SelectSeq(ScanOrder(Len(alarmRegs)), hit)
  IN [k \in 1..Len(hits) |->
        LET regAddr == ALARM_START + (hits[k][1] - 1)
            bit == hits[k][2]
        IN [register |-> regAddr, bit |-> bit,
            code |-> ALARM_MAP[<<regAddr, bit>>].code,
            text |-> ALARM_MAP[<<regAddr, bit>>].text]]

\* "<code> <text>" per entry joined by newlines: the list of <<code, text>>
\* lines; the empty list renders as the sentinel.
formatActiveAlarms(activeAlarms) ==
  IF Len(activeAlarms) = 0
    THEN <<"No active alarms">>
    ELSE [k \in 1..Len(activeAlarms) |->
            <<activeAlarms[k].code, activeAlarms[k].text>>]

decodeStatus_setOnly(alarmRegs) ==
  LET keys == {k \in DOMAIN STATUS_MAP :
                 /\ k[1] \in STATUS_REGISTERS
                 /\ ~(k[1] - ALARM_START < 0
                      \/ k[1] - ALARM_START >= Len(alarmRegs))
                 /\ BitAnd(alarmRegs[(k[1] - ALARM_START) + 1], k[2])}
  IN [k \in keys |-> TRUE]

decodeStatus(alarmRegs) ==
  LET keys == {k \in DOMAIN STATUS_MAP :
                 /\ k[1] \in STATUS_REGISTERS
                 /\ ~(k[1] - ALARM_START < 0
                      \/ k[1] - ALARM_START >= Len(alarmRegs))}
  IN [k \in keys |-> BitAnd(alarmRegs[(k[1] - ALARM_START) + 1], k[2])]

\* status['<reg>_<bit>'] as a truth value: a missing key is undefined, falsy.
Flag(status, reg, bit) ==
  <<reg, bit>> \in DOMAIN status /\ status[<<reg, bit>>]

getOperatingModeText_bitOrder(status) ==
  LET primaryMode ==
        IF Flag(status, 1019, 0) THEN "OFF"
        ELSE IF Flag(status, 1019, 1) THEN "Manual"
        ELSE IF Flag(status, 1019, 3) THEN "Auto"
        ELSE IF Flag(status, 1019, 4) THEN "Test"
        ELSE "Unknown"
      modifiers ==
        (IF Flag(status, 1019, 6) THEN <<"AMF">> ELSE <<>>)
        \o (IF Flag(status, 1019, 10) THEN <<"Load Takeover">> ELSE <<>>)
        \o (IF Flag(status, 1019, 15) THEN <<"AMF Active">> ELSE <<>>)
  IN [primary |-> primaryMode, modifiers |-> modifiers]

\* The mode text as the pair of the primary mode and the list of modifiers:
\* "Primary" or "Primary (M1, M2)".
getOperatingModeText(status) ==
  LET primaryMode ==
        IF Flag(status, 1019, 0) THEN "OFF"
        ELSE IF Flag(status, 1019, 1) THEN "Manual"
        ELSE IF Flag(status, 1019, 4) THEN "Test"
        ELSE IF Flag(status, 1019, 3) THEN "Auto"
        ELSE "Unknown"
      modifiers ==
        (IF Flag(status, 1019, 6) THEN <<"AMF">> ELSE <<>>)
        \o (IF Flag(status, 1019, 10) THEN <<"Load Takeover">> ELSE <<>>)
        \o (IF Flag(status, 1019, 15) THEN <<"AMF Active">> ELSE <<>>)
  IN [primary |-> primaryMode, modifiers |-> modifiers]

\* modifiers.join(', '): the pieces of the joined text.
Join(parts, sep) ==
  [k \in 1..(2 * Len(parts) - 1) |->
     IF k % 2 = 1 THEN parts[(k + 1) \div 2] ELSE sep]

\* The text getOperatingModeText returns, as the list of its pieces:
\* `${primaryMode} (${modifiers.join(', ')})`, or primaryMode alone.
operatingModeString(status) ==
  LET m == getOperatingModeText(status)
  IN IF Len(m.modifiers) > 0
       THEN <<m.primary, " (">> \o Join(m.modifiers, ", ") \o <<")">>
       ELSE <<m.primary>>

getReg(block, addr) ==
  LET idx == addr - MEAS_START
  IN IF idx < 0 \/ idx >= Len(block) THEN <<>> ELSE <<block[idx + 1]>>

Max(a, b) == IF a >= b THEN a ELSE b

\* Register addresses of the measurement table (R).
R_APP_VERSION == 500
R_PGEN == 519
R_EGEN_HI == 536
R_EGEN_LO == 537
R_RUN_HI == 554
R_RUN_LO == 555

\* The operand of `& 0xffff`: a number, or undefined, which ToInt32 makes 0.
ToInt32(x) == IF x = <<>> THEN 0 ELSE x[1]

\* s16(x) for x a word or undefined.
s16(x) ==
  LET v == ToInt32(x) % Word
  IN IF v > 32767 THEN v - Word ELSE v

\* u32(hi, lo): `<<` and `|` work on signed 32-bit integers, so bit 15 of
\* hi becomes the sign.
u32(hi, lo) ==
  LET h == ToInt32(hi) % Word
      l == ToInt32(lo) % Word
  IN (IF h > 32767 THEN h - Word ELSE h) * Word + l

\* The decimal digits of a natural number, as characters.
Digit(d) ==
  CASE d = 0 -> "0" [] d = 1 -> "1" [] d = 2 -> "2" [] d = 3 -> "3"
    [] d = 4 -> "4" [] d = 5 -> "5" [] d = 6 -> "6" [] d = 7 -> "7"
    [] d = 8 -> "8" [] d = 9 -> "9"

RECURSIVE Digits(_)
Digits(n) ==
  IF n < 10 THEN <<Digit(n)>> ELSE Append(Digits(n \div 10), Digit(n % 10))

\* String(raw) for raw a word or undefined.
String(raw) ==
  IF raw = <<>> THEN <<"u", "n", "d", "e", "f", "i", "n", "e", "d">>
                ELSE Digits(raw[1])

\* str.padStart(len, '0')
padStart(str, len) ==
  [k \in 1..(Max(len, Len(str)) - Len(str)) |-> "0"] \o str

\* fmtAppVersion(raw): the characters of `${first}.${second}.${lastTwo}`.
fmtAppVersion(raw) ==
  LET str == padStart(String(raw), 4)
      first == str[1]
      second == str[2]
      lastTwo == SubSeq(str, 3, Len(str))
  IN <<first, ".", second, ".">> \o lastTwo

\* readRunHours, readEnergy, readGen (pgen_kw) and the version of a block.
readFields(block) ==
  [app_version |-> fmtAppVersion(getReg(block, R_APP_VERSION)),
   pgen_kw |-> s16(getReg(block, R_PGEN)),
   run_hours |-> u32(getReg(block, R_RUN_HI), getReg(block, R_RUN_LO)),
   energy_kwh |-> u32(getReg(block, R_EGEN_HI), getReg(block, R_EGEN_LO))]

(***************************************************************************)
(* COMMAND FLOW                                                            *)
(***************************************************************************)
MaxTicks == 2
MaxPending == 1

\* Date.now() when the process starts: far beyond the cooldown.
StartMs == 2 * CMD_COOLDOWN_MS

\* How far the wall clock moves between two callbacks; it can be set back.
\* The command flow is run with the first set, the poll flow with the second.
ClockSteps == {100, 4900, 5000, -5000}
PollClockSteps == {2500, 125000, -5000}

\* The enabled flag sets the model starts from; together they enable each
\* of the twelve commands.
EnabledSets ==
  { {}, {"alarm_ack", "start"}, {"gb_on", "gb_off"}, {"stop", "start_gb_on"},
    {"gb_off_stop", "mb_on"}, {"mb_off", "mode_manual"},
    {"mode_auto", "mode_test"}, {"start", "stop", "alarm_ack"} }

\* Topics of inbound messages: the subscribed topics, two command topics
\* that most flag sets leave disabled, and a foreign topic.
Topics(enabled) == enabled \cup {"alarm_ack", "mode_test"} \cup {"state"}

cmdTopicSet(enabled) ==
  {ENABLED_COMMANDS(enabled)[i].key : i \in DOMAIN ENABLED_COMMANDS(enabled)}

\* commandByTopic.get(topic): null or the command.
commandByTopic(commands, topic) ==
  SelectSeq(commands, LAMBDA c : c.key = topic)

\* withinCooldown(): the value returned (true: go ahead) and lastRun after it.
withinCooldown_inclusive(t, lr) ==
  IF t - lr <= CMD_COOLDOWN_MS
    THEN [ok |-> FALSE, lastRun |-> lr]
    ELSE [ok |-> TRUE, lastRun |-> t]

withinCooldown_noset(t, lr) ==
  IF t - lr < CMD_COOLDOWN_MS
    THEN [ok |-> FALSE, lastRun |-> lr]
    ELSE [ok |-> TRUE, lastRun |-> lr]

\* A gate that restarts the window at every command, rejected ones too.
withinCooldown_extends(t, lr) ==
  IF t - lr < CMD_COOLDOWN_MS
    THEN [ok |-> FALSE, lastRun |-> t]
    ELSE [ok |-> TRUE, lastRun |-> t]

withinCooldown(t, lr) ==
  IF t - lr < CMD_COOLDOWN_MS
    THEN [ok |-> FALSE, lastRun |-> lr]
    ELSE [ok |-> TRUE, lastRun |-> t]

\* writeCommandFlag(mb, offset): the write calls it makes.
writeCommandFlag(offset) == << [offset |-> offset, values |-> <<TRUE>>] >>

\* handleCommand(topic) up to its await: lastRun after it, the coil writes
\* it issued and how it ended.
handleCommand(topic, t, lr, commands) ==
  LET cmd == commandByTopic(commands, topic)
      gate == withinCooldown(t, lr)
  IN IF cmd = <<>>
       THEN [lastRun |-> lr, calls |-> <<>>, outcome |-> "unknown"]
     ELSE IF ~gate.ok
       THEN [lastRun |-> gate.lastRun, calls |-> <<>>, outcome |-> "skipped"]
     ELSE [lastRun |-> gate.lastRun,
           calls |-> writeCommandFlag(cmd[1].offset),
           outcome |-> "accepted"]

\* mq.subscribe(Array.from(cmdTopicSet)), made only when the set is not empty.
subscribed(enabled) ==
  IF cmdTopicSet(enabled) # {} THEN cmdTopicSet(enabled) ELSE {}

\* mq.on('message', ...): the listener that guards handleCommand.
onMessage_allCommands(topic, retain, t, lr, enabled) ==
  IF retain
    THEN [lastRun |-> lr, calls |-> <<>>, outcome |-> "retained"]
  ELSE handleCommand(topic, t, lr, COMMAND_DEFS)

onMessage_noRetainCheck(topic, retain, t, lr, enabled) ==
  IF topic \notin cmdTopicSet(enabled)
    THEN [lastRun |-> lr, calls |-> <<>>, outcome |-> "not_enabled"]
  ELSE handleCommand(topic, t, lr, ENABLED_COMMANDS(enabled))

onMessage(topic, retain, t, lr, enabled) ==
  IF topic \notin cmdTopicSet(enabled)
    THEN [lastRun |-> lr, calls |-> <<>>, outcome |-> "not_enabled"]
  ELSE IF retain
    THEN [lastRun |-> lr, calls |-> <<>>, outcome |-> "retained"]
  ELSE handleCommand(topic, t, lr, ENABLED_COMMANDS(enabled))

Remove(s, i) ==
  [k \in 1..(Len(s) - 1) |-> IF k < i THEN s[k] ELSE s[k + 1]]

\* The run-cycle state as one value.
RunCycle == [prevEngineRunning |-> prevEngineRunning,
             lastRunStarted |-> lastRunStarted,
             lastRunStopped |-> lastRunStopped,
             lastRunStartedMs |-> lastRunStartedMs,
             lastRunDurationSeconds |-> lastRunDurationSeconds]

NoPoll ==
  [kind |-> "none", at |-> 0, inflight |-> 0,
   pre |-> [prevActiveAlarmKeys |-> {},
            rc |-> [prevEngineRunning |-> <<>>, lastRunStarted |-> <<>>,
                    lastRunStopped |-> <<>>, lastRunStartedMs |-> <<>>,
                    lastRunDurationSeconds |-> <<>>]],
   firstOk |-> FALSE, observed |-> <<>>, event |-> "none",
   activated |-> <<>>, cleared |-> {},
   pubs |-> <<>>, snapshot |-> <<>>]

\* The observation of a step of the poll flow that decodes nothing.
PollStep(kind) ==
  [NoPoll EXCEPT !.kind = kind, !.at = now, !.inflight = Len(polls),
                 !.pre = [prevActiveAlarmKeys |-> prevActiveAlarmKeys,
                          rc |-> RunCycle]]

NoCmd ==
  [kind |-> "none", topic |-> "", retain |-> FALSE, at |-> 0,
   lastRunBefore |-> 0, prevAccept |-> <<>>, inflight |-> 0, calls |-> <<>>,
   outcome |-> "none"]

InitCmd ==
  /\ lastRun = 0
  /\ pendingWrites = <<>>
  /\ lastCmd = NoCmd
  /\ accepts = <<>>
  /\ lastAccept = <<>>

\* The process is running: it has not called process.exit.
Alive == driver # "exited"

\* An MQTT message arrives on a subscribed connection.  The listener exists
\* only when some command is enabled.
Message(topic, retain) ==
  /\ Alive
  /\ cmdTopicSet(env.enabled) # {}
  /\ Len(pendingWrites) <= MaxPending
  /\ Len(accepts) <= MaxTicks + 1
  /\ LET r == onMessage(topic, retain, now, lastRun, env.enabled)
     IN /\ lastRun' = r.lastRun
        /\ pendingWrites' =
             pendingWrites \o [k \in 1..Len(r.calls) |-> r.calls[k].offset]
        /\ accepts' = IF r.outcome = "accepted"
                        THEN Append(accepts, now) ELSE accepts
        /\ lastAccept' = IF r.outcome = "accepted"
                           THEN << [at |-> now, key |-> topic,
                                      write |-> "pending"] >>
                           ELSE lastAccept
        /\ lastCmd' = [kind |-> "message", topic |-> topic, retain |-> retain,
                       at |-> now, lastRunBefore |-> lastRun,
                       prevAccept |-> lastAccept,
                       inflight |-> Len(pendingWrites), calls |-> r.calls,
                       outcome |-> r.outcome]
  /\ lastPoll' = NoPoll
  /\ UNCHANGED <<env, now, ticks, pollVars, devVars, dec, fn>>

\* handleCommand(topic) after its await: the write returned (ok) or threw;
\* the handler logs and returns either way, the catch swallows the error.
writeSettled_release(ok, offset, lr) ==
  IF ok THEN [lastRun |-> lr, calls |-> <<>>, outcome |-> "sent"]
        ELSE [lastRun |-> 0, calls |-> <<>>, outcome |-> "error"]

writeSettled(ok, offset, lr) ==
  [lastRun |-> lr, calls |-> <<>>, outcome |-> IF ok THEN "sent" ELSE "error"]

\* The coil write of a suspended handler completes or fails.
WriteDone(i, ok) ==
  /\ Alive
  /\ i \in DOMAIN pendingWrites
  /\ LET r == writeSettled(ok, pendingWrites[i], lastRun)
     IN /\ lastRun' = r.lastRun
        /\ pendingWrites' =
             Remove(pendingWrites, i)
               \o [k \in 1..Len(r.calls) |-> r.calls[k].offset]
        /\ lastAccept' =
             IF /\ lastAccept # <<>>
                /\ lastAccept[1].write = "pending"
                /\ i = Len(pendingWrites)
               THEN << [lastAccept[1] EXCEPT !.write = r.outcome] >>
               ELSE lastAccept
        /\ lastCmd' = [kind |-> "write", topic |-> "", retain |-> FALSE,
                       at |-> now, lastRunBefore |-> lastRun,
                       prevAccept |-> lastAccept,
                       inflight |-> Len(pendingWrites), calls |-> r.calls,
                       outcome |-> r.outcome]
  /\ lastPoll' = NoPoll
  /\ UNCHANGED <<env, now, ticks, accepts, pollVars, devVars, dec, fn>>

ClockTick(d) ==
  /\ ticks < MaxTicks
  /\ now + d >= 0
  /\ now' = now + d
  /\ ticks' = ticks + 1
  /\ lastCmd' = NoCmd
  /\ lastPoll' = NoPoll
  /\ UNCHANGED <<env, cmdVars, pollVars, devVars, dec, fn>>

(***************************************************************************)
(* POLL FLOW                                                               *)
(***************************************************************************)
MaxPolls == 2
MaxToggles == 2
MaxPollTicks == 1

\* What the device returns for registers 1000..1019.  Registers 1006 and
\* 1016 (not alarm registers) are never zero; bit 6 of 1018 is the engine.
AlarmPatterns == {"none", "one", "two"}

AlarmBlock(pattern, running) ==
  [i \in 1..ALARM_COUNT |->
     CASE i = 1  -> IF pattern = "none" THEN 0 ELSE 1
       [] i = 2  -> IF pattern = "two" THEN 8 ELSE 0
       [] i = 7  -> 1
       [] i = 17 -> Word - 1
       [] i = 19 -> IF running THEN 64 + 16 ELSE 2
       [] i = 20 -> 8 + 64
       [] OTHER  -> 0]

\* What the device returns for registers 500..576: application version
\* 2220, everything else at rest.
MeasBlocks ==
  { [i \in 1..MEAS_COUNT |-> IF i = 1 THEN 2220 ELSE 0] }

toHex(x) == x % Word

\* Whole seconds by truncation.
RoundSeconds_floor(ms) == ms \div 1000

\* Math.round(ms / 1000)
RoundSeconds(ms) == (ms + 500) \div 1000

\* The keys of the active alarms and the alarm transition diff of one poll.
alarmDiff_accumulate(prevKeys, active) ==
  LET currentActiveAlarmKeys ==
        {<<active[k].register, active[k].bit>> : k \in DOMAIN active}
  IN [current |-> prevKeys \cup currentActiveAlarmKeys,
      activated |-> SelectSeq(active,
                      LAMBDA a : <<a.register, a.bit>> \notin prevKeys),
      cleared |-> {key \in prevKeys : key \notin currentActiveAlarmKeys}]

alarmDiff(prevKeys, active) ==
  LET currentActiveAlarmKeys ==
        {<<active[k].register, active[k].bit>> : k \in DOMAIN active}
  IN [current |-> currentActiveAlarmKeys,
      activated |-> SelectSeq(active,
                      LAMBDA a : <<a.register, a.bit>> \notin prevKeys),
      cleared |-> {key \in prevKeys : key \notin currentActiveAlarmKeys}]

\* Engine run/stop logging of one poll: the run-cycle state after it, the
\* event logged and the retained transition topics published.
engineRunStop_level(rc, engineRunning, t) ==
  IF engineRunning
    THEN [rc |-> [rc EXCEPT !.lastRunStarted = <<t>>,
                            !.lastRunStartedMs = <<t>>,
                            !.prevEngineRunning = <<engineRunning>>],
          event |-> "start",
          pubs |-> << [topic |-> "status/last_run_started", value |-> <<t>>] >>]
    ELSE [rc |-> [rc EXCEPT !.prevEngineRunning = <<engineRunning>>],
          event |-> "none", pubs |-> <<>>]

engineRunStop_noNullCheck(rc, engineRunning, t) ==
  IF rc.prevEngineRunning = <<>>
    THEN [rc |-> [rc EXCEPT !.prevEngineRunning = <<engineRunning>>],
          event |-> "none", pubs |-> <<>>]
  ELSE IF engineRunning # rc.prevEngineRunning[1]
    THEN IF engineRunning
      THEN [rc |-> [rc EXCEPT !.lastRunStarted = <<t>>,
                              !.lastRunStartedMs = <<t>>,
                              !.prevEngineRunning = <<engineRunning>>],
            event |-> "start",
            pubs |-> << [topic |-> "status/last_run_started",
                         value |-> <<t>>] >>]
      ELSE LET startMs == IF rc.lastRunStartedMs # <<>>
                            THEN rc.lastRunStartedMs[1] ELSE 0
               durationSec == << Max(0, RoundSeconds(t - startMs)) >>
           IN [rc |-> [rc EXCEPT !.lastRunStopped = <<t>>,
                                 !.lastRunDurationSeconds = durationSec,
                                 !.prevEngineRunning = <<engineRunning>>],
               event |-> "stop",
               pubs |-> << [topic |-> "status/last_run_duration_s",
                            value |-> durationSec],
                           [topic |-> "status/last_run_stopped",
                            value |-> <<t>>] >>]
  ELSE [rc |-> rc, event |-> "none", pubs |-> <<>>]

engineRunStop(rc, engineRunning, t) ==
  IF rc.prevEngineRunning = <<>>
    THEN [rc |-> [rc EXCEPT !.prevEngineRunning = <<engineRunning>>],
          event |-> "none", pubs |-> <<>>]
  ELSE IF engineRunning # rc.prevEngineRunning[1]
    THEN IF engineRunning
      THEN [rc |-> [rc EXCEPT !.lastRunStarted = <<t>>,
                              !.lastRunStartedMs = <<t>>,
                              !.prevEngineRunning = <<engineRunning>>],
            event |-> "start",
            pubs |-> << [topic |-> "status/last_run_started",
                         value |-> <<t>>] >>]
      ELSE LET durationSec ==
                 IF rc.lastRunStartedMs # <<>>
                   THEN << Max(0, RoundSeconds(t - rc.lastRunStartedMs[1])) >>
                   ELSE rc.lastRunDurationSeconds
           IN [rc |-> [rc EXCEPT !.lastRunStopped = <<t>>,
                                 !.lastRunDurationSeconds = durationSec,
                                 !.prevEngineRunning = <<engineRunning>>],
               event |-> "stop",
               pubs |-> (IF rc.lastRunStartedMs # <<>>
                           THEN << [topic |-> "status/last_run_duration_s",
                                    value |-> durationSec] >>
                           ELSE <<>>)
                        \o << [topic |-> "status/last_run_stopped",
                               value |-> <<t>>] >>]
  ELSE [rc |-> rc, event |-> "none", pubs |-> <<>>]

\* A poll whose snapshot is published from the run-cycle state it found, as
\* if its publishes ran apart from its run-cycle update.
decodeAndPublish_staleSnapshot(b, alarmRegs, prevKeys, rc, t, bitfields) ==
  LET active == decodeAlarms(alarmRegs)
      diff == alarmDiff(prevKeys, active)
      status == decodeStatus(alarmRegs)
      run == engineRunStop(rc, Flag(status, 1018, 6), t)
  IN [prevActiveAlarmKeys |-> diff.current,
      rc |-> run.rc,
      event |-> run.event,
      activated |-> diff.activated,
      cleared |-> diff.cleared,
      pubs |-> run.pubs,
      snapshot |->
        << [meas |-> b,
            alarms |-> [active |-> active,
                        active_text |-> formatActiveAlarms(active),
                        bitfield |->
                          IF bitfields
                            THEN << [i \in 1..ALARM_COUNT |-> toHex(alarmRegs[i])] >>
                            ELSE <<>>],
            status |-> status,
            operating_mode |-> getOperatingModeText(status),
            last_run_started |-> rc.lastRunStarted,
            last_run_stopped |-> rc.lastRunStopped,
            last_run_duration_s |-> rc.lastRunDurationSeconds,
            ts |-> t] >>]

\* readAndPublish from the return of its second read to its end: the alarm
\* transition state and run-cycle state after it and everything published.
\* The measurement topics (gen, mains, counters, ...) are decoded from the
\* block b, which the snapshot carries as it was read.
decodeAndPublish(b, alarmRegs, prevKeys, rc, t, bitfields) ==
  LET active == decodeAlarms(alarmRegs)
      diff == alarmDiff(prevKeys, active)
      status == decodeStatus(alarmRegs)
      engineRunning == Flag(status, 1018, 6)
      run == engineRunStop(rc, engineRunning, t)
  IN [prevActiveAlarmKeys |-> diff.current,
      rc |-> run.rc,
      event |-> run.event,
      activated |-> diff.activated,
      cleared |-> diff.cleared,
      pubs |-> run.pubs,
      snapshot |->
        << [meas |-> b,
            alarms |-> [active |-> active,
                        active_text |-> formatActiveAlarms(active),
                        bitfield |->
                          IF bitfields
                            THEN << [i \in 1..ALARM_COUNT |-> toHex(alarmRegs[i])] >>
                            ELSE <<>>],
            status |-> status,
            operating_mode |-> getOperatingModeText(status),
            last_run_started |-> run.rc.lastRunStarted,
            last_run_stopped |-> run.rc.lastRunStopped,
            last_run_duration_s |-> run.rc.lastRunDurationSeconds,
            ts |-> t] >>]

\* run(): what a poll whose read failed does in its catch block: it logs.
pollFailed_reset(prevKeys, rc) ==
  [prevActiveAlarmKeys |-> {},
   rc |-> [rc EXCEPT !.prevEngineRunning = <<>>],
   pubs |-> <<>>, snapshot |-> <<>>]

pollFailed(prevKeys, rc) ==
  [prevActiveAlarmKeys |-> prevKeys, rc |-> rc, pubs |-> <<>>, snapshot |-> <<>>]

NoCycles ==
  [starts |-> 0, stops |-> 0, startEvents |-> 0, stopEvents |-> 0,
   rises |-> 0, falls |-> 0, delivered |-> <<>>]

(***************************************************************************)
(* Home Assistant discovery and the topics of a poll.  A text is the list  *)
(* of its pieces: names are one piece each, separators and the digits of a *)
(* number are pieces of one character.                                     *)
(***************************************************************************)
\* str.replace(from, to) over the pieces of a text.
replace(str, from, to) ==
  [i \in DOMAIN str |-> IF str[i] = from THEN to ELSE str[i]]

\* publish(mq, key, ...): the topic it publishes on.
publish(key) == <<"TOPIC_PREFIX", "/">> \o key

\* publishFlat(mq, prefixKey, obj, ...): one topic for each leaf of obj,
\* `${path}/${k}` along the way down; leaves is the set of key paths.
publishFlat(prefixKey, leaves) ==
  { publish(<<prefixKey>> \o leaf) :
      leaf \in { [i \in 1..(2 * Len(p)) |->
                    IF i % 2 = 1 THEN "/" ELSE p[i \div 2]] : p \in leaves } }

sensors == <<
  [key |-> "app_version", jsonPath |-> << <<"app_version">> >>],
  [key |-> "device_model", jsonPath |-> << <<"device", ".", "model">> >>],
  [key |-> "timestamp", jsonPath |-> << <<"ts">> >>],
  [key |-> "gen_voltage_l1n", jsonPath |-> << <<"gen", ".", "voltage_l1n_v">> >>],
  [key |-> "gen_voltage_l2n", jsonPath |-> << <<"gen", ".", "voltage_l2n_v">> >>],
  [key |-> "gen_voltage_l3n", jsonPath |-> << <<"gen", ".", "voltage_l3n_v">> >>],
  [key |-> "gen_current_l1", jsonPath |-> << <<"gen", ".", "current_l1_a">> >>],
  [key |-> "gen_current_l2", jsonPath |-> << <<"gen", ".", "current_l2_a">> >>],
  [key |-> "gen_current_l3", jsonPath |-> << <<"gen", ".", "current_l3_a">> >>],
  [key |-> "gen_frequency", jsonPath |-> << <<"gen", ".", "frequency_hz">> >>],
  [key |-> "gen_pgen", jsonPath |-> << <<"gen", ".", "pgen_kw">> >>],
  [key |-> "gen_qgen", jsonPath |-> << <<"gen", ".", "qgen_kvar">> >>],
  [key |-> "gen_sgen", jsonPath |-> << <<"gen", ".", "sgen_kva">> >>],
  [key |-> "gen_cos_phi", jsonPath |-> << <<"gen", ".", "cos_phi">> >>],
  [key |-> "mains_voltage_l1n", jsonPath |-> << <<"mains", ".", "voltage_l1n_v">> >>],
  [key |-> "mains_voltage_l2n", jsonPath |-> << <<"mains", ".", "voltage_l2n_v">> >>],
  [key |-> "mains_voltage_l3n", jsonPath |-> << <<"mains", ".", "voltage_l3n_v">> >>],
  [key |-> "mains_frequency", jsonPath |-> << <<"mains", ".", "frequency_hz">> >>],
  [key |-> "run_hours", jsonPath |-> << <<"run_hours">> >>],
  [key |-> "energy_kwh", jsonPath |-> << <<"energy_kwh">> >>],
  [key |-> "active_alarms_text", jsonPath |-> << <<"alarms", ".", "active_text">> >>],
  [key |-> "usupply_v", jsonPath |-> << <<"usupply_v">> >>],
  [key |-> "alarm_count", jsonPath |-> << <<"alarms", ".", "count">> >>],
  [key |-> "alarm_unacknowledged", jsonPath |-> << <<"alarms", ".", "unacknowledged">> >>],
  [key |-> "alarm_ack_active", jsonPath |-> << <<"alarms", ".", "ack_active">> >>],
  [key |-> "energy_signed_kwh", jsonPath |-> << <<"energy_signed_kwh">> >>],
  [key |-> "gen_breaker_ops", jsonPath |-> << <<"counters", ".", "gen_breaker_ops">> >>],
  [key |-> "mains_breaker_ops", jsonPath |-> << <<"counters", ".", "mains_breaker_ops">> >>],
  [key |-> "start_attempts", jsonPath |-> << <<"counters", ".", "start_attempts">> >>],
  [key |-> "rpm", jsonPath |-> << <<"rpm">> >>],
  [key |-> "last_run_started", jsonPath |-> << <<"last_run_started">> >>],
  [key |-> "last_run_stopped", jsonPath |-> << <<"last_run_stopped">> >>],
  [key |-> "last_run_duration_s", jsonPath |-> << <<"last_run_duration_s">> >>],
  [key |-> "operating_mode", jsonPath |-> << <<"status", ".", "operating_mode">> >>] >>

bitfieldSensors == <<
  [key |-> "alarm_bitfield_1000", jsonPath |-> <<>>],
  [key |-> "alarm_bitfield_1001", jsonPath |-> <<>>],
  [key |-> "alarm_bitfield_1002", jsonPath |-> <<>>],
  [key |-> "alarm_bitfield_1003", jsonPath |-> <<>>],
  [key |-> "alarm_bitfield_1004", jsonPath |-> <<>>],
  [key |-> "alarm_bitfield_1005", jsonPath |-> <<>>],
  [key |-> "alarm_bitfield_1006", jsonPath |-> <<>>],
  [key |-> "alarm_bitfield_1007", jsonPath |-> <<>>],
  [key |-> "alarm_bitfield_1008", jsonPath |-> <<>>],
  [key |-> "alarm_bitfield_1009", jsonPath |-> <<>>],
  [key |-> "alarm_bitfield_1010", jsonPath |-> <<>>],
  [key |-> "alarm_bitfield_1011", jsonPath |-> <<>>],
  [key |-> "alarm_bitfield_1012", jsonPath |-> <<>>],
  [key |-> "alarm_bitfield_1013", jsonPath |-> <<>>],
  [key |-> "alarm_bitfield_1014", jsonPath |-> <<>>],
  [key |-> "alarm_bitfield_1015", jsonPath |-> <<>>] >>

binarySensors == <<
  [key |-> "has_unack_alarms", jsonPath |-> << <<"alarms", ".", "unacknowledged">> >>],
  [key |-> "status_mains_failure", jsonPath |-> << <<"status", ".", "1", "0", "1", "8", "_", "0">> >>],
  [key |-> "status_mb_on", jsonPath |-> << <<"status", ".", "1", "0", "1", "8", "_", "1">> >>],
  [key |-> "status_gb_on", jsonPath |-> << <<"status", ".", "1", "0", "1", "8", "_", "4">> >>],
  [key |-> "status_engine_running", jsonPath |-> << <<"status", ".", "1", "0", "1", "8", "_", "6">> >>],
  [key |-> "status_gen_ok", jsonPath |-> << <<"status", ".", "1", "0", "1", "8", "_", "8">> >>],
  [key |-> "status_running_timer", jsonPath |-> << <<"status", ".", "1", "0", "1", "8", "_", "7">> >>],
  [key |-> "mode_off", jsonPath |-> << <<"status", ".", "1", "0", "1", "9", "_", "0">> >>],
  [key |-> "mode_manual", jsonPath |-> << <<"status", ".", "1", "0", "1", "9", "_", "1">> >>],
  [key |-> "mode_auto", jsonPath |-> << <<"status", ".", "1", "0", "1", "9", "_", "3">> >>],
  [key |-> "mode_test", jsonPath |-> << <<"status", ".", "1", "0", "1", "9", "_", "4">> >>],
  [key |-> "mode_island", jsonPath |-> << <<"status", ".", "1", "0", "1", "9", "_", "5">> >>],
  [key |-> "mode_amf", jsonPath |-> << <<"status", ".", "1", "0", "1", "9", "_", "6">> >>],
  [key |-> "load_takeover", jsonPath |-> << <<"status", ".", "1", "0", "1", "9", "_", "1", "0">> >>],
  [key |-> "amf_active", jsonPath |-> << <<"status", ".", "1", "0", "1", "9", "_", "1", "5">> >>] >>

\* dataTopicFromPath(jsonPath): the state topic, or nothing when
\* jsonPath.replace throws because jsonPath is undefined.
dataTopicFromPath(jsonPath) ==
  IF jsonPath = <<>>
    THEN <<>>
    ELSE << <<"TOPIC_PREFIX", "/">> \o replace(jsonPath[1], ".", "/") >>

\* pubBinarySensor: cfg.jsonPath || '' is never undefined.
pubBinarySensor(cfg) ==
  [component |-> "binary_sensor", key |-> cfg.key,
   stat_t |-> dataTopicFromPath(IF cfg.jsonPath = <<>> THEN << <<>> >>
                                                       ELSE cfg.jsonPath)[1]]

\* publishHassDiscovery(mq): the discovery entries it publishes, in order,
\* and whether it threw.  pubSensor passes cfg.jsonPath to dataTopicFromPath
\* as it is, so the first sensor without a jsonPath ends the function with a
\* TypeError and nothing after it is published.
publishHassDiscovery(bitfields, commands) ==
  LET list == sensors \o (IF bitfields THEN bitfieldSensors ELSE <<>>)
      bad == {i \in DOMAIN list : dataTopicFromPath(list[i].jsonPath) = <<>>}
      stop == IF bad = {} THEN Len(list) + 1
                          ELSE CHOOSE i \in bad : \A j \in bad : i <= j
      sensorEntries ==
        [i \in 1..(stop - 1) |->
           [component |-> "sensor", key |-> list[i].key,
            stat_t |-> dataTopicFromPath(list[i].jsonPath)[1]]]
  IN IF bad # {}
       THEN [threw |-> TRUE, entries |-> sensorEntries]
       ELSE [threw |-> FALSE,
             entries |->
               sensorEntries
               \o [i \in DOMAIN binarySensors |->
                     pubBinarySensor(binarySensors[i])]
               \o [i \in DOMAIN commands |->
                     [component |-> "button", key |-> commands[i].key,
                      stat_t |-> <<>>]]]

\* The static metadata main publishes after discovery.
staticTopics ==
  { publish(<<"device", "/", "model">>),
    publish(<<"device", "/", "manufacturer">>),
    publish(<<"device", "/", "name">>) }

\* key.replace(':', '_') of `${regAddr}:${bit}`.
statusKey(k) ==
  replace(String(<<k[1]>>) \o <<":">> \o String(<<k[2]>>), ":", "_")

\* The topics readAndPublish publishes at its end, for the status object and
\* the alarms object it built.  publishFlat puts the pieces of a key path
\* between slashes, so the pieces of a status key are joined back first.
snapshotTopics(status, bitfield) ==
  publishFlat("device", { <<"id">>, <<"name">>, <<"manufacturer">>,
                            <<"model">> })
  \cup publishFlat("gen", { <<"voltage_l1n_v">>, <<"voltage_l2n_v">>,
                            <<"voltage_l3n_v">>, <<"current_l1_a">>,
                            <<"current_l2_a">>, <<"current_l3_a">>,
                            <<"frequency_hz">>, <<"pgen_kw">>,
                            <<"qgen_kvar">>, <<"sgen_kva">>, <<"cos_phi">> })
  \cup publishFlat("mains", { <<"voltage_l1n_v">>, <<"voltage_l2n_v">>,
                              <<"voltage_l3n_v">>, <<"frequency_hz">> })
  \cup { publish(<<"run_hours">>), publish(<<"energy_kwh">>),
         publish(<<"energy_signed_kwh">>) }
  \cup publishFlat("alarms", { <<"count">>, <<"unacknowledged">>,
                               <<"ack_active">>, <<"active">>,
                               <<"active_text">> })
  \cup (IF bitfield = <<>>
          THEN {}
          ELSE { publish(<<"alarms", "/", "bitfield", "/">>
                         \o String(<<ALARM_START + (i - 1)>>)) :
                   i \in DOMAIN bitfield[1] })
  \cup publishFlat("counters", { <<"gen_breaker_ops">>,
                                 <<"mains_breaker_ops">>,
                                 <<"start_attempts">> })
  \cup { publish(<<"status", "/">> \o statusKey(k)) : k \in DOMAIN status }
  \cup publishFlat("status", { <<"operating_mode">> })
  \cup { publish(<<"rpm">>), publish(<<"usupply_v">>),
         publish(<<"last_run_started">>), publish(<<"last_run_stopped">>),
         publish(<<"last_run_duration_s">>), publish(<<"ts">>) }

\* Module load and main up to the first run(): the registers of the two
\* tables are collected, the tables are not compared with each other, and
\* main goes on to its first poll whatever they hold.  An exception thrown
\* by publishHassDiscovery is caught at the end of main, which exits.
startup(alarmMap, statusMap, announced) ==
  IF announced.threw THEN "exited" ELSE "start"

\* What publishHassDiscovery did in this process.
discovery ==
  publishHassDiscovery(env.PUBLISH_ALARM_BITFIELDS,
                       ENABLED_COMMANDS(env.enabled))

InitPoll ==
  /\ driver = startup(ALARM_MAP, STATUS_MAP, discovery)
  /\ polls = <<>>
  /\ prevActiveAlarmKeys = {}
  /\ prevEngineRunning = <<>>
  /\ lastRunStarted = <<>>
  /\ lastRunStopped = <<>>
  /\ lastRunStartedMs = <<>>
  /\ lastRunDurationSeconds = <<>>
  /\ lastPoll = NoPoll

InitDevice ==
  /\ engine \in BOOLEAN
  /\ cycles = NoCycles

InitClock ==
  /\ now = StartMs
  /\ ticks = 0

InitDec == dec = [in |-> <<>>, active |-> <<>>, status |-> <<>>]

InitFn == fn = [name |-> "none", in |-> <<>>, out |-> <<>>]

SetRunCycle(rc) ==
  /\ prevEngineRunning' = rc.prevEngineRunning
  /\ lastRunStarted' = rc.lastRunStarted
  /\ lastRunStopped' = rc.lastRunStopped
  /\ lastRunStartedMs' = rc.lastRunStartedMs
  /\ lastRunDurationSeconds' = rc.lastRunDurationSeconds

\* main arming the timer whatever INTERVAL_MS is.
afterFirstRun_alwaysInterval(d, intervalMs) ==
  IF d = "first" THEN "interval" ELSE d

\* What main does when the run() it awaits returns: exit, or arm the timer.
afterFirstRun(d, intervalMs) ==
  IF d = "first"
    THEN IF intervalMs <= 0 THEN "exited" ELSE "interval"
    ELSE d

\* run(): the catch block swallows the error of a failed readAndPublish, so
\* the caller of run() goes on as after a successful one.
afterFailedRun_crash(d, intervalMs) == "exited"

afterFailedRun(d, intervalMs) == afterFirstRun(d, intervalMs)

\* setInterval(run, INTERVAL_MS) calls run whenever the period has elapsed;
\* it does not look at the polls that are still suspended.
intervalStartsPoll(inflight) == TRUE

\* main calls run() for the first time: readAndPublish issues its first read.
Start ==
  /\ driver = "start"
  /\ driver' = "first"
  /\ polls' = Append(polls, [pc |-> "read1", b |-> <<>>])
  /\ lastPoll' = PollStep("start")
  /\ lastCmd' = NoCmd
  /\ UNCHANGED <<env, now, ticks, cmdVars, prevActiveAlarmKeys, rcVars,
                 devVars, dec, fn>>

\* A timer callback that also clears the cooldown of the command flow.
IntervalTick_clearsCooldown ==
  /\ driver = "interval"
  /\ Len(polls) < MaxPolls
  /\ intervalStartsPoll(Len(polls))
  /\ polls' = Append(polls, [pc |-> "read1", b |-> <<>>])
  /\ lastPoll' = PollStep("tick")
  /\ lastCmd' = NoCmd
  /\ lastRun' = 0
  /\ UNCHANGED <<env, now, ticks, pendingWrites, accepts, lastAccept, driver,
                 prevActiveAlarmKeys, rcVars, devVars, dec, fn>>

\* The interval timer fires: run() is called again.
IntervalTick ==
  /\ driver = "interval"
  /\ Len(polls) < MaxPolls
  /\ intervalStartsPoll(Len(polls))
  /\ polls' = Append(polls, [pc |-> "read1", b |-> <<>>])
  /\ lastPoll' = PollStep("tick")
  /\ lastCmd' = NoCmd
  /\ UNCHANGED <<env, now, ticks, cmdVars, driver, prevActiveAlarmKeys,
                 rcVars, devVars, dec, fn>>

\* The read of block 500..576 of poll i returns: the poll issues its second
\* read, or the error ends it in run's catch block.
Read1Done(i, ok, b) ==
  /\ Alive
  /\ i \in DOMAIN polls
  /\ polls[i].pc = "read1"
  /\ IF ok
       THEN /\ polls' = [polls EXCEPT ![i] = [pc |-> "read2", b |-> <<b>>]]
            /\ lastPoll' = PollStep("read1_ok")
            /\ UNCHANGED <<driver, prevActiveAlarmKeys, rcVars>>
       ELSE LET r == pollFailed(prevActiveAlarmKeys, RunCycle)
            IN /\ polls' = Remove(polls, i)
               /\ driver' = afterFailedRun(driver, env.INTERVAL_MS)
               /\ prevActiveAlarmKeys' = r.prevActiveAlarmKeys
               /\ SetRunCycle(r.rc)
               /\ lastPoll' = [PollStep("read1_failed") EXCEPT
                                 !.pubs = r.pubs, !.snapshot = r.snapshot]
  /\ lastCmd' = NoCmd
  /\ UNCHANGED <<env, now, ticks, cmdVars, devVars, dec, fn>>

\* The read of block 1000..1019 of poll i returns: the poll decodes, updates
\* the alarm and run-cycle state and publishes, or the error ends it.
Read2Done(i, ok, pattern) ==
  /\ Alive
  /\ i \in DOMAIN polls
  /\ polls[i].pc = "read2"
  /\ polls' = Remove(polls, i)
  /\ driver' = IF ok THEN afterFirstRun(driver, env.INTERVAL_MS)
                     ELSE afterFailedRun(driver, env.INTERVAL_MS)
  /\ IF ok
       THEN \E r \in {decodeAndPublish(polls[i].b[1],
                         AlarmBlock(pattern, engine), prevActiveAlarmKeys,
                         RunCycle, now, env.PUBLISH_ALARM_BITFIELDS)} :
               /\ prevActiveAlarmKeys' = r.prevActiveAlarmKeys
               /\ SetRunCycle(r.rc)
               /\ lastPoll' = [PollStep("published") EXCEPT
                                 !.firstOk = (cycles.delivered = <<>>),
                                 !.observed = <<engine>>,
                                 !.event = r.event,
                                 !.activated = r.activated,
                                 !.cleared = r.cleared,
                                 !.pubs = r.pubs,
                                 !.snapshot = r.snapshot]
               /\ cycles' = [cycles EXCEPT
                    !.delivered = <<engine>>,
                    !.rises = @ + (IF cycles.delivered = <<FALSE>> /\ engine
                                     THEN 1 ELSE 0),
                    !.falls = @ + (IF cycles.delivered = <<TRUE>> /\ ~engine
                                     THEN 1 ELSE 0),
                    !.startEvents = @ + (IF r.event = "start" THEN 1 ELSE 0),
                    !.stopEvents = @ + (IF r.event = "stop" THEN 1 ELSE 0)]
       ELSE LET r == pollFailed(prevActiveAlarmKeys, RunCycle)
            IN /\ prevActiveAlarmKeys' = r.prevActiveAlarmKeys
               /\ SetRunCycle(r.rc)
               /\ lastPoll' = [PollStep("read2_failed") EXCEPT
                                 !.pubs = r.pubs, !.snapshot = r.snapshot]
               /\ UNCHANGED cycles
  /\ lastCmd' = NoCmd
  /\ UNCHANGED <<env, now, ticks, cmdVars, engine, dec, fn>>

\* The device: the engine is started or stopped.
EngineToggle ==
  /\ cycles.starts + cycles.stops < MaxToggles
  /\ engine' = ~engine
  /\ cycles' = [cycles EXCEPT
       !.starts = @ + (IF engine THEN 0 ELSE 1),
       !.stops = @ + (IF engine THEN 1 ELSE 0)]
  /\ lastCmd' = NoCmd
  /\ lastPoll' = NoPoll
  /\ UNCHANGED <<env, now, ticks, cmdVars, pollVars, dec, fn>>

(***************************************************************************)
(* The Bitfield Classifier on its own                                      *)
(***************************************************************************)
\* Blocks 1000..1019 with at most two registers set, each to one of these.
DecodeValues == {1, 64, 72, 32768, Word - 1}

DecodeBlocks ==
  { [i \in 1..ALARM_COUNT |-> IF i = p[1] THEN p[3]
                              ELSE IF i = p[2] THEN p[4] ELSE 0] :
      p \in {q \in (1..ALARM_COUNT) \X (1..ALARM_COUNT)
                   \X (DecodeValues \cup {0}) \X DecodeValues : q[1] < q[2]} }

Decode(alarmRegs) ==
  /\ dec.in = <<>>
  /\ dec' = [in |-> alarmRegs,
             active |-> decodeAlarms(alarmRegs),
             status |-> decodeStatus(alarmRegs)]
  /\ UNCHANGED <<env, now, ticks, cmdVars, lastCmd, pollVars, lastPoll,
                 devVars, fn>>

(***************************************************************************)
(* The helper functions on their own                                       *)
(***************************************************************************)
\* The status flags getOperatingModeText looks at.
ModeFlags == {<<1019, 0>>, <<1019, 1>>, <<1019, 3>>, <<1019, 4>>,
              <<1019, 6>>, <<1019, 10>>, <<1019, 15>>}

\* The status object decodeStatus builds when exactly the bits in set are 1.
StatusOf(set) == [k \in DOMAIN STATUS_MAP |-> k \in set]

ModeText(set) ==
  /\ fn.name = "none"
  /\ fn' = [name |-> "getOperatingModeText", in |-> set,
            out |-> operatingModeString(StatusOf(set))]
  /\ UNCHANGED <<env, now, ticks, cmdVars, lastCmd, pollVars, lastPoll,
                 devVars, dec>>

\* A register value as getReg hands it to a decoder: undefined or a word.
WordValues == {0, 1, 305, 2220, 9999, 10000, 12345, 32767, 32768, Word - 1}

RegValues == {<<>>} \cup {<<w>> : w \in WordValues}

\* What the device may return for registers 500..: blocks cut short after
\* len registers, with the version word, a negative PGEN and the given high
\* words of the two 32-bit counters.
BlockLengths == {0, 19, 37, 55, MEAS_COUNT}

FieldBlocks ==
  { [i \in 1..len |->
       CASE MEAS_START + (i - 1) = R_APP_VERSION -> 2220
         [] MEAS_START + (i - 1) = R_PGEN -> Word - 1
         [] MEAS_START + (i - 1) \in {R_EGEN_HI, R_RUN_HI} -> hi
         [] MEAS_START + (i - 1) \in {R_EGEN_LO, R_RUN_LO} -> 7
         [] OTHER -> 0] :
      len \in BlockLengths, hi \in {0, 1, 32768} }

\* A decoder is applied to one input; out holds the value it returns, as
\* <<value>> (a returned undefined would be <<>>).
Apply(name, in, value) ==
  /\ fn.name = "none"
  /\ fn' = [name |-> name, in |-> in, out |-> <<value>>]
  /\ UNCHANGED <<env, now, ticks, cmdVars, lastCmd, pollVars, lastPoll,
                 devVars, dec>>

S16(x) == Apply("s16", x, s16(x))

U32(hi, lo) == Apply("u32", [hi |-> hi, lo |-> lo], u32(hi, lo))

FmtAppVersion(raw) == Apply("fmtAppVersion", raw, fmtAppVersion(raw))

ToHex(x) == Apply("toHex", x, toHex(ToInt32(x)))

\* The snapshot fields of a block, each as <<value>>.
ReadFields(block) ==
  Apply("readFields", block,
        [f \in DOMAIN readFields(block) |-> <<readFields(block)[f]>>])

(***************************************************************************)
(* Specifications                                                          *)
(***************************************************************************)
Envs(enabledSets, intervals, flags) ==
  [enabled : enabledSets, INTERVAL_MS : intervals,
   PUBLISH_ALARM_BITFIELDS : flags]

InitRest ==
  InitClock /\ InitCmd /\ InitPoll /\ InitDevice /\ InitDec /\ InitFn

NextCmd ==
  \/ \E topic \in Topics(env.enabled), retain \in BOOLEAN : Message(topic, retain)
  \/ \E i \in DOMAIN pendingWrites, ok \in BOOLEAN : WriteDone(i, ok)
  \/ \E d \in ClockSteps : ClockTick(d)

NextPoll ==
  \/ Start
  \/ IntervalTick
  \/ \E i \in DOMAIN polls, ok \in BOOLEAN, b \in MeasBlocks : Read1Done(i, ok, b)
  \/ \E i \in DOMAIN polls, ok \in BOOLEAN, p \in AlarmPatterns : Read2Done(i, ok, p)
  \/ EngineToggle
  \/ \E d \in PollClockSteps : ticks < MaxPollTicks /\ ClockTick(d)

NextDecode == \E regs \in DecodeBlocks : Decode(regs)

\* The command flow: messages, coil writes and the clock.
InitCmdFlow == env \in Envs(EnabledSets, {5000}, {FALSE}) /\ InitRest

SpecCmd == InitCmdFlow /\ [][NextCmd]_vars

\* The poll flow: the driver, the polls, the device and the clock.
InitPollFlow == env \in Envs({{}}, {-1, 0, 5000}, BOOLEAN) /\ InitRest

SpecPoll == InitPollFlow /\ [][NextPoll]_vars

\* The poll flow with a positive interval under the scheduling of the
\* runtime: an armed timer fires, and the register reads succeed again and
\* again (a read that could succeed infinitely often does).
InitPollLive == env \in Envs({{}}, {5000}, {FALSE}) /\ InitRest

ReadsSucceed ==
  /\ WF_vars(IntervalTick)
  /\ SF_vars(\E i \in DOMAIN polls, b \in MeasBlocks : Read1Done(i, TRUE, b))
  /\ SF_vars(\E i \in DOMAIN polls, p \in AlarmPatterns : Read2Done(i, TRUE, p))

\* The steps of the driver and the polls, with the clock and the engine at
\* rest.
NextPollLive ==
  \/ Start
  \/ IntervalTick
  \/ \E i \in DOMAIN polls, ok \in BOOLEAN, b \in MeasBlocks : Read1Done(i, ok, b)
  \/ \E i \in DOMAIN polls, ok \in BOOLEAN, p \in AlarmPatterns : Read2Done(i, ok, p)

SpecPollLive == InitPollLive /\ [][NextPollLive]_vars /\ ReadsSucceed

\* The classifier applied to each block of DecodeBlocks.
InitDecode == env \in Envs({{}}, {5000}, {FALSE}) /\ InitRest

SpecDecode == InitDecode /\ [][NextDecode]_vars

NextFn ==
  \/ \E set \in SUBSET ModeFlags : ModeText(set)
  \/ \E x \in RegValues : S16(x)
  \/ \E hi \in RegValues, lo \in RegValues : U32(hi, lo)
  \/ \E raw \in RegValues : FmtAppVersion(raw)
  \/ \E x \in RegValues : ToHex(x)
  \/ \E block \in FieldBlocks : ReadFields(block)

\* Each helper function applied to each of its inputs.
InitFnFlow == env \in Envs({{}}, {5000}, {FALSE}) /\ InitRest

SpecFn == InitFnFlow /\ [][NextFn]_vars

\* Both flows in one process: polls and command handlers interleave at
\* their awaits.  Two commands are enabled; the clock stands still, so that
\* the second of two commands falls into the cooldown of the first.
BothTopics == {"start", "state"}

NextBoth ==
  \/ Start
  \/ IntervalTick
  \/ \E i \in DOMAIN polls, ok \in BOOLEAN, b \in MeasBlocks : Read1Done(i, ok, b)
  \/ \E i \in DOMAIN polls, ok \in BOOLEAN, p \in AlarmPatterns : Read2Done(i, ok, p)
  \/ EngineToggle
  \/ \E topic \in BothTopics, retain \in BOOLEAN : Message(topic, retain)
  \/ \E i \in DOMAIN pendingWrites, ok \in BOOLEAN : WriteDone(i, ok)

InitBoth == env \in Envs({{"start", "stop"}}, {5000}, {FALSE}) /\ InitRest

SpecBoth == InitBoth /\ [][NextBoth]_vars

(***************************************************************************)
(* Properties                                                              *)
(***************************************************************************)
Enabled(topic) == topic \in env.enabled

\* C1: any two accepted commands are at least CMD_COOLDOWN_MS apart, so no
\* window of CMD_COOLDOWN_MS holds two of them; in particular a message
\* handled while an accepted command's coil write is pending, inside the
\* window of that command, is not accepted.
C1_OneAcceptPerWindow ==
  /\ \A i, j \in DOMAIN accepts :
       i < j => accepts[j] - accepts[i] >= CMD_COOLDOWN_MS
  /\ (/\ lastCmd.kind = "message"
      /\ lastCmd.inflight > 0
      /\ lastCmd.prevAccept # <<>>
      /\ lastCmd.at - lastCmd.prevAccept[1].at < CMD_COOLDOWN_MS)
     => lastCmd.outcome # "accepted" /\ lastCmd.calls = <<>>

\* A message arrived while the coil write of the command accepted 100 ms
\* earlier was pending, and was skipped.
C1_Witness ==
  /\ lastCmd.kind = "message"
  /\ lastCmd.inflight > 0
  /\ lastCmd.outcome = "skipped"
  /\ lastCmd.prevAccept # <<>>
  /\ lastCmd.at - lastCmd.prevAccept[1].at = 100

\* C2: after a command A was accepted at t, a fresh message for an enabled
\* command B, the same or another, handled at t' is skipped without a write
\* when t' - t < CMD_COOLDOWN_MS and accepted when t' - t >= CMD_COOLDOWN_MS.
C2_GlobalCooldown ==
  (/\ lastCmd.kind = "message"
   /\ Enabled(lastCmd.topic)
   /\ ~lastCmd.retain
   /\ lastCmd.prevAccept # <<>>)
  => IF lastCmd.at - lastCmd.prevAccept[1].at < CMD_COOLDOWN_MS
       THEN /\ lastCmd.outcome = "skipped"
            /\ lastCmd.calls = <<>>
            /\ Len(pendingWrites) = lastCmd.inflight
       ELSE lastCmd.outcome = "accepted"

\* A command with another identifier than the last accepted one is skipped
\* 4900 ms after it.
C2_Witness ==
  /\ lastCmd.kind = "message"
  /\ lastCmd.outcome = "skipped"
  /\ lastCmd.prevAccept # <<>>
  /\ lastCmd.prevAccept[1].key # lastCmd.topic
  /\ lastCmd.at - lastCmd.prevAccept[1].at = 4900

\* C3: a retained message causes no coil write and leaves lastRun as it was.
C3_RetainedIgnored ==
  (lastCmd.kind = "message" /\ lastCmd.retain)
  => /\ lastCmd.calls = <<>>
     /\ Len(pendingWrites) = lastCmd.inflight
     /\ lastRun = lastCmd.lastRunBefore
     /\ lastAccept = lastCmd.prevAccept

\* A retained message for an enabled command arrived when the cooldown had
\* run out, so that a fresh one would have been accepted.
C3_Witness ==
  /\ lastCmd.kind = "message"
  /\ lastCmd.retain
  /\ Enabled(lastCmd.topic)
  /\ lastCmd.at - lastCmd.lastRunBefore >= CMD_COOLDOWN_MS

\* C4: at most one invocation of readAndPublish is suspended at any time.
C4_OnePollInFlight == Len(polls) <= 1

\* C5: no step of a poll that ends in a failed read publishes anything or
\* changes the previous alarm keys or the run-cycle state.
C5_FailedPollChangesNothing ==
  lastPoll.kind \in {"start", "tick", "read1_ok", "read1_failed", "read2_failed"}
  => /\ lastPoll.pubs = <<>>
     /\ lastPoll.snapshot = <<>>
     /\ prevActiveAlarmKeys = lastPoll.pre.prevActiveAlarmKeys
     /\ RunCycle = lastPoll.pre.rc

\* The second read of a poll failed when alarms were active at the previous
\* poll and a start and a stop had been recorded.
C5_Witness ==
  /\ lastPoll.kind = "read2_failed"
  /\ prevActiveAlarmKeys # {}
  /\ lastRunStartedMs # <<>>
  /\ lastRunDurationSeconds # <<>>

\* C6: the active alarms come from alarm registers only and the status
\* entries from status registers only; whatever registers 1018 and 1019
\* hold, no active alarm names them.
C6_AllowLists ==
  dec.in # <<>>
  => /\ \A k \in DOMAIN dec.active :
          /\ dec.active[k].register \in ALARM_REGISTERS
          /\ dec.active[k].register \notin {1018, 1019}
          /\ <<dec.active[k].register, dec.active[k].bit>> \in DOMAIN ALARM_MAP
     /\ \A key \in DOMAIN dec.status : key[1] \in {1018, 1019}

\* Every bit of 1018 and 1019 is set and there is no active alarm.
C6_Witness ==
  /\ dec.in # <<>>
  /\ dec.in[19] = Word - 1
  /\ dec.in[20] = Word - 1
  /\ dec.active = <<>>
  /\ dec.status # <<>>

\* C7: the first successful poll records the observed value and emits no
\* start or stop event: nothing is published as a transition and the
\* timestamps and the duration stay unset.
C7_FirstSampleSilent ==
  (lastPoll.kind = "published" /\ lastPoll.firstOk)
  => /\ lastPoll.event = "none"
     /\ lastPoll.pubs = <<>>
     /\ prevEngineRunning = lastPoll.observed
     /\ lastRunStarted = <<>> /\ lastRunStartedMs = <<>>
     /\ lastRunStopped = <<>> /\ lastRunDurationSeconds = <<>>
     /\ lastPoll.snapshot[1].last_run_started = <<>>
     /\ lastPoll.snapshot[1].last_run_stopped = <<>>
     /\ lastPoll.snapshot[1].last_run_duration_s = <<>>

\* The first successful poll found the engine running.
C7_Witness ==
  /\ lastPoll.kind = "published"
  /\ lastPoll.firstOk
  /\ lastPoll.observed = <<TRUE>>

\* C8: a later successful poll that finds the value changed sets the start
\* time when it became true; when it became false it sets the stop time and
\* recomputes the duration only if a start time exists; the recorded value
\* becomes the observed one.
C8_Transition ==
  (lastPoll.kind = "published" /\ ~lastPoll.firstOk)
  => /\ lastPoll.pre.rc.prevEngineRunning # <<>>
     /\ prevEngineRunning = lastPoll.observed
     /\ lastPoll.observed # lastPoll.pre.rc.prevEngineRunning
        => IF lastPoll.observed[1]
             THEN /\ lastRunStarted = <<lastPoll.at>>
                  /\ lastRunStartedMs = <<lastPoll.at>>
                  /\ lastRunStopped = lastPoll.pre.rc.lastRunStopped
                  /\ lastRunDurationSeconds =
                       lastPoll.pre.rc.lastRunDurationSeconds
             ELSE /\ lastRunStopped = <<lastPoll.at>>
                  /\ lastRunStarted = lastPoll.pre.rc.lastRunStarted
                  /\ lastRunStartedMs = lastPoll.pre.rc.lastRunStartedMs
                  /\ IF lastPoll.pre.rc.lastRunStartedMs # <<>>
                       THEN /\ lastRunDurationSeconds # <<>>
                            /\ lastRunDurationSeconds[1] * 1000 + 500 >
                                 lastPoll.at - lastRunStartedMs[1]
                            /\ \/ lastRunDurationSeconds[1] = 0
                               \/ lastRunDurationSeconds[1] * 1000 - 500 <=
                                    lastPoll.at - lastRunStartedMs[1]
                       ELSE lastRunDurationSeconds =
                              lastPoll.pre.rc.lastRunDurationSeconds

\* The engine was running at the first poll and a later poll found it
\* stopped: the stop time is set, no start time exists, the duration stays
\* unset.
C8_Witness ==
  /\ lastPoll.kind = "published"
  /\ lastPoll.pre.rc.prevEngineRunning = <<TRUE>>
  /\ lastPoll.observed = <<FALSE>>
  /\ lastPoll.pre.rc.lastRunStartedMs = <<>>
  /\ lastRunStopped # <<>>

\* C9 as claimed: after a successful poll the tracker has emitted one start
\* event per physical start of the engine and one stop event per physical
\* stop.
C9_OneEventPerPhysicalCycle ==
  lastPoll.kind = "published"
  => /\ cycles.startEvents = cycles.starts
     /\ cycles.stopEvents = cycles.stops

\* C9 as amended: one start event per change from false to true and one
\* stop event per change from true to false between consecutive successful
\* polls, and no other event; so never more start (stop) events than
\* physical starts (stops).
C9_OneEventPerObservedChange ==
  /\ cycles.startEvents = cycles.rises
  /\ cycles.stopEvents = cycles.falls
  /\ cycles.startEvents <= cycles.starts
  /\ cycles.stopEvents <= cycles.stops
  /\ lastPoll.kind = "published"
     => (lastPoll.event = "start"
           <=> lastPoll.pre.rc.prevEngineRunning = <<FALSE>>
               /\ lastPoll.observed = <<TRUE>>)
        /\ (lastPoll.event = "stop"
              <=> lastPoll.pre.rc.prevEngineRunning = <<TRUE>>
                  /\ lastPoll.observed = <<FALSE>>)

\* One run cycle was observed from its start to its stop.
C9_Witness ==
  /\ cycles.starts = 1 /\ cycles.stops = 1
  /\ cycles.startEvents = 1 /\ cycles.stopEvents = 1
  /\ lastPoll.event = "stop"

\* The coil offset the command table of COMMANDS.md gives each identifier.
C10_Offset(key) ==
  CASE key = "start" -> 1 [] key = "gb_on" -> 2 [] key = "gb_off" -> 3
    [] key = "stop" -> 4 [] key = "alarm_ack" -> 10
    [] key = "start_gb_on" -> 15 [] key = "gb_off_stop" -> 16
    [] key = "mb_on" -> 25 [] key = "mb_off" -> 26
    [] key = "mode_manual" -> 28 [] key = "mode_auto" -> 30
    [] key = "mode_test" -> 31

\* C10: an accepted command makes exactly one write call, of the value true
\* to the coil offset of its identifier, and that handler makes no further
\* call when the write returns; a rejected command makes none.
C10_OneWritePerAccept ==
  /\ lastCmd.kind = "message"
     => IF lastCmd.outcome = "accepted"
          THEN /\ lastCmd.calls = << [offset |-> C10_Offset(lastCmd.topic),
                                      values |-> <<TRUE>>] >>
               /\ pendingWrites =
                    [k \in 1..(lastCmd.inflight + 1) |->
                       IF k <= lastCmd.inflight THEN pendingWrites[k]
                       ELSE C10_Offset(lastCmd.topic)]
          ELSE /\ lastCmd.calls = <<>>
               /\ Len(pendingWrites) = lastCmd.inflight
  /\ lastCmd.kind = "write" => lastCmd.calls = <<>>
  /\ \A i \in DOMAIN COMMAND_DEFS :
       COMMAND_DEFS[i].offset = C10_Offset(COMMAND_DEFS[i].key)

\* The command mode_test was accepted and wrote coil 31.
C10_Witness ==
  /\ lastCmd.kind = "message"
  /\ lastCmd.topic = "mode_test"
  /\ lastCmd.outcome = "accepted"
  /\ lastCmd.calls = << [offset |-> 31, values |-> <<TRUE>>] >>

\* C11: when the coil write of an accepted command fails, the handler makes
\* no further write call, the process keeps running and lastRun keeps the
\* value the command set; a fresh command handled within the cooldown of
\* the command whose write failed is skipped.
C11_FailedWriteNotRetried ==
  /\ (lastCmd.kind = "write" /\ lastCmd.outcome = "error")
     => /\ lastCmd.calls = <<>>
        /\ Len(pendingWrites) = lastCmd.inflight - 1
        /\ lastRun = lastCmd.lastRunBefore
        /\ Alive
  /\ (/\ lastCmd.kind = "message"
      /\ Enabled(lastCmd.topic)
      /\ ~lastCmd.retain
      /\ lastCmd.prevAccept # <<>>
      /\ lastCmd.prevAccept[1].write = "error"
      /\ lastCmd.at - lastCmd.prevAccept[1].at < CMD_COOLDOWN_MS)
     => lastCmd.outcome = "skipped" /\ lastCmd.calls = <<>>

\* The write of a command failed and the same command, reissued 100 ms
\* after it was accepted, was skipped.
C11_Witness ==
  /\ lastCmd.kind = "message"
  /\ lastCmd.outcome = "skipped"
  /\ lastCmd.prevAccept # <<>>
  /\ lastCmd.prevAccept[1].write = "error"
  /\ lastCmd.prevAccept[1].key = lastCmd.topic
  /\ lastCmd.at - lastCmd.prevAccept[1].at = 100

\* C12: a message for a command that is not enabled causes no coil write
\* and leaves lastRun as it was; the topics subscribed to are exactly the
\* topics of the enabled commands.
C12_DisabledIsNoOp ==
  /\ (lastCmd.kind = "message" /\ ~Enabled(lastCmd.topic))
     => /\ lastCmd.outcome = "not_enabled"
        /\ lastCmd.calls = <<>>
        /\ Len(pendingWrites) = lastCmd.inflight
        /\ lastRun = lastCmd.lastRunBefore
        /\ lastAccept = lastCmd.prevAccept
  /\ subscribed(env.enabled) = env.enabled

\* A fresh message for a command of the table that is not enabled arrived
\* when the cooldown had run out.
C12_Witness ==
  /\ lastCmd.kind = "message"
  /\ lastCmd.topic \in CommandKeys
  /\ ~Enabled(lastCmd.topic)
  /\ ~lastCmd.retain
  /\ lastCmd.at - lastCmd.lastRunBefore >= CMD_COOLDOWN_MS

\* C13: with a positive interval a failed poll does not end the process and
\* leaves the periodic driver armed; after a failed poll another poll is
\* started, and when the reads succeed again a snapshot is published.
C13_FailedPoll ==
  lastPoll.kind \in {"read1_failed", "read2_failed"} /\ env.INTERVAL_MS > 0

C13_FailedPollRetried ==
  /\ [](env.INTERVAL_MS > 0 => Alive)
  /\ [](C13_FailedPoll => driver = "interval")
  /\ C13_FailedPoll ~> (lastPoll.kind = "tick")
  /\ C13_FailedPoll ~> (lastPoll.kind = "published")

\* The very first poll failed at its first read and the timer was armed.
C13_Witness ==
  /\ lastPoll.kind = "read1_failed"
  /\ env.INTERVAL_MS > 0
  /\ cycles.delivered = <<>>
  /\ lastPoll.inflight = 1
  /\ driver = "interval"

\* The (register, bit) keys of a list of active alarms.
AlarmKeys(active) ==
  {<<active[k].register, active[k].bit>> : k \in DOMAIN active}

\* C14: a successful poll logs as activated the current keys that were not
\* in the previous set, each once, and as cleared the previous keys that
\* are not current, and the previous set becomes the current set.
C14_AlarmTransitions ==
  lastPoll.kind = "published"
  => LET current == AlarmKeys(lastPoll.snapshot[1].alarms.active)
         previous == lastPoll.pre.prevActiveAlarmKeys
     IN /\ AlarmKeys(lastPoll.activated) = current \ previous
        /\ Len(lastPoll.activated) = Cardinality(current \ previous)
        /\ lastPoll.cleared = previous \ current
        /\ prevActiveAlarmKeys = current

\* Previous {(1000,0)}, current {(1000,0), (1001,3)}: activated is
\* {(1001,3)} and nothing is cleared.
C14_Witness ==
  /\ lastPoll.kind = "published"
  /\ lastPoll.pre.prevActiveAlarmKeys = {<<1000, 0>>}
  /\ prevActiveAlarmKeys = {<<1000, 0>>, <<1001, 3>>}
  /\ AlarmKeys(lastPoll.activated) = {<<1001, 3>>}
  /\ lastPoll.cleared = {}

\* The alarm definitions whose bit is set in a block 1000..1019.
SetAlarmKeys(alarmRegs) ==
  {k \in DOMAIN ALARM_MAP :
     /\ k[1] - ALARM_START \in 0..(Len(alarmRegs) - 1)
     /\ BitAnd(alarmRegs[(k[1] - ALARM_START) + 1], k[2])}

\* C15: the active alarms are, once each, the alarm definitions whose bit
\* is set, with the code and text of the table, in ascending register and
\* then ascending bit order.
C15_ActiveAlarms ==
  dec.in # <<>>
  => /\ AlarmKeys(dec.active) = SetAlarmKeys(dec.in)
     /\ Len(dec.active) = Cardinality(SetAlarmKeys(dec.in))
     /\ \A k \in DOMAIN dec.active :
          LET a == dec.active[k]
          IN /\ a.code = ALARM_MAP[<<a.register, a.bit>>].code
             /\ a.text = ALARM_MAP[<<a.register, a.bit>>].text
     /\ \A i, j \in DOMAIN dec.active :
          i < j => \/ dec.active[i].register < dec.active[j].register
                   \/ /\ dec.active[i].register = dec.active[j].register
                      /\ dec.active[i].bit < dec.active[j].bit
     /\ \A k \in DOMAIN ALARM_MAP : k[1] \in ALARM_START..ALARM_END

\* Exactly one bit of the block is set, a defined alarm bit, and there is
\* exactly one active alarm.
C15_Witness ==
  /\ dec.in # <<>>
  /\ \E r \in DOMAIN dec.in :
       /\ dec.in[r] = 64
       /\ \A q \in DOMAIN dec.in : q # r => dec.in[q] = 0
       /\ <<ALARM_START + (r - 1), 6>> \in DOMAIN ALARM_MAP
       /\ Len(dec.active) = 1
       /\ dec.active[1].register = ALARM_START + (r - 1)
       /\ dec.active[1].bit = 6

\* C16: for a full block 1000..1019 the status snapshot has an entry for
\* each key of the status table and for nothing else, and each entry tells
\* whether its bit is set.
C16_StatusEntries ==
  dec.in # <<>>
  => /\ Len(dec.in) = ALARM_COUNT
     /\ DOMAIN dec.status = DOMAIN STATUS_MAP
     /\ \A k \in DOMAIN dec.status :
          dec.status[k] = BitAnd(dec.in[(k[1] - ALARM_START) + 1], k[2])

\* Registers 1018 and 1019 are zero and the snapshot has every status key,
\* each false.
C16_Witness ==
  /\ dec.in # <<>>
  /\ dec.in[19] = 0 /\ dec.in[20] = 0
  /\ DOMAIN dec.status = DOMAIN STATUS_MAP
  /\ \A k \in DOMAIN dec.status : dec.status[k] = FALSE

\* The primary mode the priority order OFF, Manual, Test, Auto gives a set
\* of true flags, and its modifiers in the order AMF, Load Takeover, AMF
\* Active.
C17_Primary(set) ==
  IF <<1019, 0>> \in set THEN "OFF"
  ELSE IF <<1019, 1>> \in set THEN "Manual"
  ELSE IF <<1019, 4>> \in set THEN "Test"
  ELSE IF <<1019, 3>> \in set THEN "Auto"
  ELSE "Unknown"

C17_Modifiers(set) ==
  SelectSeq(<< <<"AMF", <<1019, 6>> >>, <<"Load Takeover", <<1019, 10>> >>,
               <<"AMF Active", <<1019, 15>> >> >>,
            LAMBDA m : m[2] \in set)

\* C17: the operating-mode text is the primary mode alone when no modifier
\* flag is true, and otherwise the primary mode, " (", the active modifiers
\* in the fixed order separated by ", ", and ")".
C17_OperatingModeText ==
  fn.name = "getOperatingModeText"
  => LET mods == C17_Modifiers(fn.in)
     IN /\ fn.out[1] = C17_Primary(fn.in)
        /\ IF mods = <<>>
             THEN Len(fn.out) = 1
             ELSE /\ Len(fn.out) = 2 * Len(mods) + 2
                  /\ fn.out[2] = " ("
                  /\ fn.out[Len(fn.out)] = ")"
                  /\ \A k \in 1..Len(mods) : fn.out[2 * k + 1] = mods[k][1]
                  /\ \A k \in 1..(Len(mods) - 1) : fn.out[2 * k + 2] = ", "

\* Auto with AMF and Load Takeover reads "Auto (AMF, Load Takeover)".
C17_Witness ==
  /\ fn.name = "getOperatingModeText"
  /\ fn.in = {<<1019, 3>>, <<1019, 6>>, <<1019, 10>>}
  /\ fn.out = <<"Auto", " (", "AMF", ", ", "Load Takeover", ")">>

\* C18 as claimed: a decoder applied to an undefined register value returns
\* undefined, and a snapshot field decoded from a register outside the
\* block returned is undefined.
C18_UndefinedPropagates ==
  /\ (fn.name \in {"s16", "fmtAppVersion", "toHex"} /\ fn.in = <<>>)
     => fn.out = <<>>
  /\ (fn.name = "u32" /\ (fn.in.hi = <<>> \/ fn.in.lo = <<>>))
     => fn.out = <<>>
  /\ fn.name = "readFields"
     => /\ getReg(fn.in, R_APP_VERSION) = <<>> => fn.out[1].app_version = <<>>
        /\ getReg(fn.in, R_PGEN) = <<>> => fn.out[1].pgen_kw = <<>>
        /\ getReg(fn.in, R_RUN_LO) = <<>> => fn.out[1].run_hours = <<>>
        /\ getReg(fn.in, R_EGEN_LO) = <<>> => fn.out[1].energy_kwh = <<>>

\* C19 as claimed: u32(hi, lo) of two words is hi * 65536 + lo, which is
\* not negative, and the run hours and the energy counter of a block are
\* not negative.
C19_Unsigned32 ==
  /\ (fn.name = "u32" /\ fn.in.hi # <<>> /\ fn.in.lo # <<>>)
     => /\ fn.out[1] >= 0
        /\ fn.out[1] \div Word = fn.in.hi[1]
        /\ fn.out[1] % Word = fn.in.lo[1]
  /\ (fn.name = "readFields" /\ Len(fn.in) = MEAS_COUNT)
     => fn.out[1].run_hours[1] >= 0 /\ fn.out[1].energy_kwh[1] >= 0

\* C20 as claimed: the version text of a word is six characters, the four
\* digits of the zero-padded value with a dot after the first and after
\* the second.
C20_FormatVersion ==
  (fn.name = "fmtAppVersion" /\ fn.in # <<>>)
  => LET n == fn.in[1]
     IN /\ Len(fn.out[1]) = 6
        /\ n < 10000
           => fn.out[1] = <<Digit(n \div 1000), ".", Digit((n \div 100) % 10),
                            ".", Digit((n \div 10) % 10), Digit(n % 10)>>

\* C21 as claimed: when the alarm table also claims a (register, bit) of the
\* status table, the process fails at startup and does not reach its first
\* poll; and the classifier attributes no bit to both an alarm and a status
\* entry.
C21_ConflictIsFatal ==
  /\ \A k \in DOMAIN STATUS_MAP :
       LET alarmMap == ALARM_MAP @@ (k :> STATUS_MAP[k])
       IN DOMAIN alarmMap \cap DOMAIN STATUS_MAP # {}
          => startup(alarmMap, STATUS_MAP, discovery) = "failed"
  /\ dec.in # <<>>
     => \A k \in DOMAIN dec.active :
          <<dec.active[k].register, dec.active[k].bit>> \notin DOMAIN dec.status

\* C22 as claimed: with PUBLISH_ALARM_BITFIELDS true the discovery entries
\* of the alarm bitfields are published at startup and every successful poll
\* publishes the hex value of each polled alarm register; with the flag
\* false neither is published.
C22_BitfieldsFollowFlag ==
  LET keys == {bitfieldSensors[i].key : i \in DOMAIN bitfieldSensors}
      published == {discovery.entries[i].key : i \in DOMAIN discovery.entries}
      s == lastPoll.snapshot[1]
  IN IF env.PUBLISH_ALARM_BITFIELDS
       THEN /\ keys \subseteq published
            /\ lastPoll.kind = "published"
               => \A i \in 1..ALARM_COUNT :
                    publish(<<"alarms", "/", "bitfield", "/">>
                            \o String(<<ALARM_START + (i - 1)>>))
                      \in snapshotTopics(s.status, s.alarms.bitfield)
       ELSE /\ keys \cap published = {}
            /\ lastPoll.kind = "published"
               => s.alarms.bitfield = <<>>

\* C23 as claimed: the state topic of every sensor and binary sensor that
\* discovery announced is among the static metadata topics or the topics a
\* successful poll publishes.
C23_DiscoveredTopicsPublished ==
  lastPoll.kind = "published"
  => LET s == lastPoll.snapshot[1]
     IN \A i \in DOMAIN discovery.entries :
          discovery.entries[i].component \in {"sensor", "binary_sensor"}
          => discovery.entries[i].stat_t
               \in staticTopics \cup snapshotTopics(s.status, s.alarms.bitfield)

C25_Duration ==
  (/\ lastPoll.kind = "published"
   /\ lastPoll.event = "stop"
   /\ lastPoll.pre.rc.lastRunStartedMs # <<>>)
  => LET diff == lastPoll.at - lastPoll.pre.rc.lastRunStartedMs[1]
         d == lastRunDurationSeconds
     IN /\ lastPoll.pre.rc.lastRunStartedMs = lastPoll.pre.rc.lastRunStarted
        /\ d # <<>>
        /\ d[1] \in Nat
        /\ IF diff < 500
             THEN d[1] = 0
             ELSE 1000 * d[1] - 500 <= diff /\ diff < 1000 * d[1] + 500
        /\ diff < 0 => d[1] = 0
        /\ diff = 125000 => d[1] = 125
        /\ lastPoll.pubs[1] = [topic |-> "status/last_run_duration_s",
                               value |-> d]
        /\ lastPoll.snapshot[1].last_run_duration_s = d

\* A stop observed 125000 ms after the recorded start, recorded as 125 s.
C25_Witness ==
  /\ lastPoll.kind = "published"
  /\ lastPoll.event = "stop"
  /\ lastPoll.pre.rc.lastRunStartedMs # <<>>
  /\ lastPoll.at - lastPoll.pre.rc.lastRunStartedMs[1] = 125000
  /\ lastRunDurationSeconds = <<125>>

\* C26 as claimed: a successful poll that observes the recorded engine value
\* emits no event and leaves the run-cycle fields as they were; the fields
\* change only in a poll that observes a transition from the recorded value
\* to the other one; and no step makes a field that is set unset.
C26_ChangedOnlyOnTransition ==
  lastPoll.kind # "none"
  => /\ (lastPoll.kind = "published"
         /\ lastPoll.pre.rc.prevEngineRunning = lastPoll.observed)
        => lastPoll.event = "none" /\ RunCycle = lastPoll.pre.rc
     /\ RunCycle # lastPoll.pre.rc
        => /\ lastPoll.kind = "published"
           /\ lastPoll.pre.rc.prevEngineRunning # <<>>
           /\ lastPoll.observed # lastPoll.pre.rc.prevEngineRunning
     /\ \A f \in DOMAIN RunCycle :
          lastPoll.pre.rc[f] # <<>> => RunCycle[f] # <<>>

\* C26: as claimed, except that the first successful poll also changes the
\* recorded engine value: it sets it from unset to the observed value, with
\* no event and the timestamps and the duration left alone.
C26_ChangedOnlyOnObservation ==
  lastPoll.kind # "none"
  => /\ (lastPoll.kind = "published"
         /\ lastPoll.pre.rc.prevEngineRunning = lastPoll.observed)
        => /\ lastPoll.event = "none"
           /\ lastPoll.pubs = <<>>
           /\ RunCycle = lastPoll.pre.rc
     /\ RunCycle # lastPoll.pre.rc
        => /\ lastPoll.kind = "published"
           /\ IF lastPoll.pre.rc.prevEngineRunning = <<>>
                THEN /\ lastPoll.event = "none"
                     /\ RunCycle = [lastPoll.pre.rc EXCEPT
                                      !.prevEngineRunning = lastPoll.observed]
                ELSE /\ lastPoll.observed # lastPoll.pre.rc.prevEngineRunning
                     /\ lastPoll.event # "none"
     /\ \A f \in DOMAIN RunCycle :
          lastPoll.pre.rc[f] # <<>> => RunCycle[f] # <<>>

\* A successful poll that found the engine as recorded, after a start event
\* had been recorded, and changed nothing.
C26_Witness ==
  /\ lastPoll.kind = "published"
  /\ lastPoll.pre.rc.prevEngineRunning = lastPoll.observed
  /\ lastPoll.pre.rc.lastRunStarted # <<>>
  /\ lastPoll.event = "none"
  /\ RunCycle = lastPoll.pre.rc

\* C27: a step of the poll flow (start of a poll, return of either read,
\* successful or failed) leaves the cooldown timestamp and the pending
\* writes of the command flow as they are, and what a successful poll
\* records is determined by the poll state and the registers alone; a step
\* of the command flow (a message, accepted or rejected, or the settling of
\* a write) leaves the run-cycle state, the previous-alarm-key set and the
\* polls in flight as they are.
C27_NoInterference ==
  /\ [][lastPoll'.kind # "none"
        => /\ UNCHANGED <<lastRun, pendingWrites, accepts, lastAccept>>
           /\ lastPoll'.kind = "published"
              => \E i \in {j \in DOMAIN polls : polls[j].pc = "read2"},
                    p \in AlarmPatterns :
                   LET r == decodeAndPublish(polls[i].b[1],
                              AlarmBlock(p, engine), prevActiveAlarmKeys,
                              RunCycle, now, env.PUBLISH_ALARM_BITFIELDS)
                   IN /\ prevActiveAlarmKeys' = r.prevActiveAlarmKeys
                      /\ RunCycle' = r.rc]_vars
  /\ [][lastCmd'.kind # "none"
        => UNCHANGED <<prevActiveAlarmKeys, rcVars, polls, driver>>]_vars

\* A command is accepted while a poll is suspended at its second read and
\* the poll flow has alarm keys and an engine value on record.
C27_Witness ==
  /\ lastCmd.kind = "message"
  /\ lastCmd.outcome = "accepted"
  /\ lastRun = now
  /\ \E i \in DOMAIN polls : polls[i].pc = "read2"
  /\ prevEngineRunning # <<>>
  /\ prevActiveAlarmKeys # {}

\* C28: a command the cooldown rejects leaves the cooldown timestamp as it
\* was; the timestamp is at all times the time of the last accepted dispatch
\* (0 before the first); an enabled, non-retained command that arrives
\* CMD_COOLDOWN_MS or more after the last accepted dispatch is accepted; and
\* so is the first one after process start, the clock reading at least
\* CMD_COOLDOWN_MS since the epoch.
C28_RejectedKeepsWindow ==
  /\ lastRun = (IF lastAccept = <<>> THEN 0 ELSE lastAccept[1].at)
  /\ (lastCmd.kind = "message" /\ lastCmd.outcome = "skipped")
     => /\ lastRun = lastCmd.lastRunBefore
        /\ lastAccept = lastCmd.prevAccept
        /\ lastCmd.calls = <<>>
  /\ (/\ lastCmd.kind = "message"
      /\ lastCmd.topic \in cmdTopicSet(env.enabled)
      /\ ~lastCmd.retain)
     => LET since == IF lastCmd.prevAccept = <<>>
                       THEN lastCmd.at
                       ELSE lastCmd.at - lastCmd.prevAccept[1].at
        IN /\ since >= CMD_COOLDOWN_MS => lastCmd.outcome = "accepted"
           /\ since < CMD_COOLDOWN_MS => lastCmd.outcome = "skipped"

\* The second accepted command, exactly CMD_COOLDOWN_MS after the first,
\* with the clock having advanced in two steps between them.
C28_Witness ==
  /\ lastCmd.kind = "message"
  /\ lastCmd.outcome = "accepted"
  /\ lastCmd.prevAccept # <<>>
  /\ lastCmd.at - lastCmd.prevAccept[1].at = CMD_COOLDOWN_MS
  /\ ticks = 2
  /\ Len(accepts) = 2

\* C29: a start event takes the recorded engine value from false to true
\* and a stop event from true to false; once recorded, the value changes
\* only in a step that emits an event and is never unset, by a successful
\* or a failed poll.  Hence start and stop events alternate: the numbers of
\* start and stop events differ by at most one, and by the recorded value
\* when they differ.  A duration on record comes with a start and a stop
\* timestamp on record.
C29_EventsAlternate ==
  /\ lastPoll.event = "start"
     => /\ lastPoll.pre.rc.prevEngineRunning = <<FALSE>>
        /\ prevEngineRunning = <<TRUE>>
  /\ lastPoll.event = "stop"
     => /\ lastPoll.pre.rc.prevEngineRunning = <<TRUE>>
        /\ prevEngineRunning = <<FALSE>>
  /\ (lastPoll.kind # "none" /\ lastPoll.pre.rc.prevEngineRunning # <<>>)
     => /\ prevEngineRunning # <<>>
        /\ prevEngineRunning # lastPoll.pre.rc.prevEngineRunning
           => lastPoll.event # "none"
  /\ cycles.startEvents - cycles.stopEvents \in {-1, 0, 1}
  /\ cycles.startEvents - cycles.stopEvents = 1
     => prevEngineRunning = <<TRUE>>
  /\ cycles.startEvents - cycles.stopEvents = -1
     => prevEngineRunning = <<FALSE>>
  /\ lastRunDurationSeconds # <<>>
     => /\ lastRunStarted # <<>>
        /\ lastRunStopped # <<>>
        /\ lastRunStartedMs # <<>>

\* A stop event that follows a start event, after a failed poll in between
\* or not, with the duration recorded.
C29_Witness ==
  /\ lastPoll.kind = "published"
  /\ lastPoll.event = "stop"
  /\ cycles.startEvents = 1
  /\ cycles.stopEvents = 1
  /\ lastRunDurationSeconds # <<>>
  /\ lastRunStarted # <<>>
  /\ lastRunStopped # <<>>

\* C30: the step in which the second read of a poll returns does all of the
\* poll's remaining work on the state it finds: it is the decode, diff and
\* run-cycle update of that state, it ends that poll and leaves every other
\* poll and every pending command write where it was, and the snapshot it
\* publishes is of the state it leaves, all of it with the time of the step.
C30_PostReadIsOneStep ==
  /\ [][lastPoll'.kind = "published"
        => \E i \in {j \in DOMAIN polls : polls[j].pc = "read2"},
              p \in AlarmPatterns :
             LET r == decodeAndPublish(polls[i].b[1], AlarmBlock(p, engine),
                                       prevActiveAlarmKeys, RunCycle, now,
                                       env.PUBLISH_ALARM_BITFIELDS)
             IN /\ lastPoll'.pre = [prevActiveAlarmKeys |-> prevActiveAlarmKeys,
                                    rc |-> RunCycle]
                /\ prevActiveAlarmKeys' = r.prevActiveAlarmKeys
                /\ RunCycle' = r.rc
                /\ lastPoll'.snapshot = r.snapshot
                /\ lastPoll'.pubs = r.pubs
                /\ polls' = Remove(polls, i)
                /\ UNCHANGED <<now, cmdVars>>]_vars
  /\ [](lastPoll.kind = "published"
        => LET s == lastPoll.snapshot[1]
           IN /\ AlarmKeys(s.alarms.active) = prevActiveAlarmKeys
              /\ s.last_run_started = lastRunStarted
              /\ s.last_run_stopped = lastRunStopped
              /\ s.last_run_duration_s = lastRunDurationSeconds
              /\ Flag(s.status, 1018, 6) = prevEngineRunning[1]
              /\ s.ts = now
              /\ lastCmd = NoCmd)

\* A poll publishes a start event while another poll is suspended at a read
\* and a command write is pending.
C30_Witness ==
  /\ lastPoll.kind = "published"
  /\ lastPoll.event = "start"
  /\ Len(polls) > 0
  /\ pendingWrites # <<>>
  /\ lastPoll.snapshot[1].last_run_started = <<now>>

====
